---- MODULE Spec2Model ----
(***************************************************************************)
(* A state-machine model of the MyMuduo reactor core: EventLoop (poll,     *)
(* channel dispatch, the pending-functor queue and the eventfd wakeup),    *)
(* EventLoopThread, EventLoopThreadPool, TcpServer, the TcpConnection     *)
(* life cycle and send path, and EPollPoller's channel map.                *)
(* Every thread of the program is a process of the model; a                *)
(* step of the model is one atomic access to shared state (an atomic       *)
(* store, a section under the queue mutex, a system call) or a run of      *)
(* owner-thread code that no other thread can observe part-way.            *)
(***************************************************************************)
EXTENDS Integers, Sequences, FiniteSets, TLC

(***************************************************************************)
(* Bounds of the model.                                                    *)
(***************************************************************************)
\* foreign (non-loop) threads that call into the library
NumForeign == 2
\* user tasks handed to runInLoop/queueInLoop in one behaviour
MaxTasks == 3
\* calls of EventLoop::quit() made by foreign threads in one behaviour
MaxQuits == 1
\* largest value of TcpServer::setThreadNum (number of subordinate loops)
MaxThreads == 3
\* calls of TcpServer::start() in one behaviour
MaxStarts == 3
\* clients that connect while the connection life cycle is explored
MaxClients == 1
\* readiness reports the kernel makes for connected sockets in one behaviour
MaxReports == 1
\* foreign threads that call TcpConnection::shutdown()
MaxShutdownThreads == 1
\* calls of TcpConnection::send() in one behaviour
MaxSends == 2
\* largest length of a payload passed to send()
MaxLen == 2
\* the threshold the application passes to setHighWaterMarkCallback
HighWaterMark == 2
\* calls of TcpConnection::send() in a behaviour in which shutdown() is called
MaxSendsBeforeClose == 1
\* the initialSize passed to Buffer::Buffer (its default is kInitialSize = 1024)
InitialSize == 2
\* buffer_.size() is not grown beyond this
MaxBufferSize == 12
\* calls of Buffer::prepend in one behaviour
MaxPrepends == 1
\* shared_ptr copies the application holds of the object a user channel is tied to
MaxOwnerRefs == 2

(***************************************************************************)
(* Identities.  Loop 0 is the base (main) loop, loops 1..MaxThreads are    *)
(* the loops of the pool.  The owner thread of loop l has thread id l; the *)
(* foreign thread t has thread id MaxThreads + t.                          *)
(***************************************************************************)
Loops == 0..MaxThreads
Foreign == 1..NumForeign
ForeignTid(t) == MaxThreads + t

\* EventLoop::threadId_ : the id of the thread that constructed the loop
threadId_(l) == l

\* EventLoop::isInLoopThread()
IsInLoopThread(l, tid) == threadId_(l) = tid

(***************************************************************************)
(* Channels.  The wakeup channel of loop l, a user channel registered on   *)
(* the base loop, the acceptor's channel, and the channel of connection c  *)
(* (its id is the connection's id, TcpServer::nextConnId_ at its           *)
(* creation).  Event bits are the epoll bits Channel.cc tests.             *)
(***************************************************************************)
\* connections accepted in one behaviour (ids 1..MaxConns)
MaxConns == 6
Conns == 1..MaxConns
WakeupCh(l) == -2 - l
IoCh == -1
AcceptCh == 0
Channels == {WakeupCh(l) : l \in Loops} \cup {IoCh, AcceptCh} \cup Conns
EventBits == {"IN", "PRI", "OUT", "HUP", "ERR"}
kNoneEvent == {}
kReadEvent == {"IN", "PRI"}
kWriteEvent == {"OUT"}
\* EPollPoller.cc: the values of Channel::index_
kNew == -1
kAdded == 1
kDeleted == 2
\* EventLoopThread::loop_ == nullptr
NullLoop == -1
NoThread == -1

VARIABLES
    \* ---- EventLoop, one per loop ----
    loopPc,                  \* where the owner thread is in its code
    looping_,
    quit_,
    callingPendingFunctors_,
    pendingFunctors_,        \* the queue guarded by mutex_
    functors,                \* doPendingFunctors' local vector (the part not yet run)
    activeChannels_,
    activeIdx,               \* position of loop()'s range-for in activeChannels_
    wakeupFd,                \* counter of the eventfd
    \* ---- Channel and EPollPoller ----
    events_,                 \* Channel::events_
    revents_,                \* Channel::revents_
    index_,                  \* Channel::index_
    channels_,               \* EPollPoller::channels_, per loop (the keys)
    epollSet,                \* the kernel's interest list of epollfd_, per loop
    \* ---- foreign threads ----
    thrPc,
    thrLoop,                 \* the loop the call in progress targets
    thrConn,                 \* the connection the call in progress targets
    thrLen,                  \* the length of the payload of the send() in progress
    \* ---- EventLoopThread ----
    eltLoop_,                \* EventLoopThread::loop_
    exiting_,
    tfPc,                    \* where the spawned thread is in threadFunc
    \* ---- TcpServer, EventLoopThreadPool, Acceptor ----
    started_,                \* TcpServer::started_ (atomic)
    numThreads_,
    loops_,
    next_,
    nextConnId_,
    connections_,            \* keys of TcpServer::connections_
    listening_,
    backlog,                 \* completed connections waiting in the listen queue
    clientsLeft,             \* clients that will still connect
    startsLeft,              \* calls of TcpServer::start() still to come
    \* ---- TcpConnection ----
    state_,
    connLoop,                \* TcpConnection::loop_
    tied_,
    outLen,                  \* outputBuffer_.readableBytes()
    writeShut,               \* the socket's write half has been shut down
    published,               \* the application holds a TcpConnectionPtr
    sockBudget,              \* socket readiness reports still to come
    writeCompleteCallback_,  \* TcpServer::writeCompleteCallback_ is set (non-empty)
    highWaterMarkCallback_,  \* the application calls setHighWaterMarkCallback on a
                             \* connection it is handed
    sendsLeft,               \* calls of send() still to come
    emfile,                  \* the process has no file descriptor left: accept4 fails
                             \* with EMFILE
    pollEnv,                 \* what ::getenv("MUDUO_USE_POLL") returns
    crashed,                 \* the process has been killed by a signal
    mutex_,                  \* per loop: the thread that holds EventLoop::mutex_
    \* ---- EventLoopThreadPool::start(cb), thread by thread ----
    threadInitCallback_,     \* the ThreadInitCallback cb is non-empty
    poolPc,                  \* where the caller of EventLoopThreadPool::start is
    poolI,                   \* i of its for loop
    poolTf,                  \* per subordinate loop: where its thread is in threadFunc
    poolLoop_,               \* per subordinate loop: EventLoopThread::loop_ of its thread
    initCalls,               \* history: the invocations of cb, in order
    \* ---- the user channel's tie ----
    ioTied,                  \* Channel::tied_ of the user channel
    ownerRefs,               \* shared_ptr copies the application holds of the object
                             \* the user channel is tied to
    ownerDestroyed,          \* that object was destroyed when the application let go
                             \* of its last copy
    \* ---- Buffer (one object, on its own) ----
    buffer_,                 \* std::vector<char>: buffer_[i + 1] here is buffer_[i] there
    readerIndex_,
    writerIndex_,
    prependsLeft,            \* calls of prepend() still to come
    fifo,                    \* history: the bytes appended and prepended and not yet
                             \* retrieved, in order
    lastCall,                \* history: the latest call of a Buffer member
    connectionCallback_,     \* TcpServer::connectionCallback_ is set (non-empty)
    messageCallback_,        \* TcpServer::messageCallback_ is set (non-empty)
    \* ---- one connection's output path, byte by byte (its outputBuffer_ is the
    \*      Buffer above) ----
    wireState,               \* TcpConnection::state_
    wireEvents,              \* events_ of the connection's channel
    wireShut,                \* socket_->shutdownWrite() has run
    wireQueue,               \* the functors queued on the connection's loop for it
    wirePc,                  \* per calling thread: where it is in send() or shutdown()
    wireData,                \* the payload the thread inside send() passed
    wireSendsLeft,           \* calls of send() still to come
    sockPeer,                \* the peer: "open", "fin" (it closed) or "rst" (it reset)
    sockSpace,               \* free bytes in the kernel's send buffer
    written,                 \* history: the bytes ::write accepted, in order
    payloads,                \* history: the payloads of the sendInLoop calls, in order
    \* ---- history of the behaviour (not program state) ----
    nextTask,                \* next unused task id
    appended,                \* per loop: ids in the order queueInLoop appended them
    executed,                \* <<id, thread>> in the order user tasks were invoked
    quitsLeft,
    quitPcs,                 \* per loop: where inside loop() its owner was when a foreign
                             \* quit() stored quit_
    poolStarts,              \* runs of EventLoopThreadPool::start
    listenCalls,             \* runs of Acceptor::listen
    estRuns,                 \* per connection: runs of connectEstablished
    destroyedRuns,           \* per connection: runs of connectDestroyed
    closeRuns,               \* per connection: runs of handleClose
    cbLog,                   \* per connection: invocations of the user connection callback
    lastOps                  \* the TcpConnection and poller operations of the latest step
                             \* that ran any, one record each in the order they ran, until
                             \* a loop goes on to its next channel or ends doPendingFunctors

loopVars == <<loopPc, looping_, quit_, callingPendingFunctors_, pendingFunctors_,
              functors, activeChannels_, activeIdx, wakeupFd>>
chanVars == <<events_, revents_, index_, channels_, epollSet>>
thrCall == <<thrConn, thrLen>>
thrVars == <<thrPc, thrLoop, thrCall>>
eltVars == <<eltLoop_, exiting_, tfPc>>
srvVars == <<started_, numThreads_, loops_, next_, nextConnId_, connections_,
             listening_, backlog, clientsLeft, startsLeft>>
bufVars == <<buffer_, readerIndex_, writerIndex_, prependsLeft, fifo, lastCall>>
\* what no step of a loop, a server or a connection changes
procVars == <<emfile, pollEnv, crashed>>
tieVars == <<ioTied, ownerRefs, ownerDestroyed>>
lockVars == <<mutex_>>
poolVars == <<threadInitCallback_, poolPc, poolI, poolTf, poolLoop_, initCalls>>
wireVars == <<wireState, wireEvents, wireShut, wireQueue, wirePc, wireData, wireSendsLeft,
              sockPeer, sockSpace, written, payloads>>
userCbVars == <<connectionCallback_, messageCallback_>>
extVars == <<lockVars, poolVars, wireVars, userCbVars>>
connCfg == <<writeCompleteCallback_, highWaterMarkCallback_, bufVars, procVars, tieVars,
             extVars>>
connVars == <<state_, connLoop, tied_, outLen, writeShut, published, sockBudget, connCfg,
              sendsLeft>>
taskHist == <<nextTask, appended, executed>>
quitHist == <<quitsLeft, quitPcs>>
srvHist == <<poolStarts, listenCalls>>
connCounts == <<estRuns, destroyedRuns, closeRuns, cbLog>>
connHist == <<connCounts, lastOps>>
histVars == <<taskHist, quitHist, srvHist, connHist>>
vars == <<loopVars, chanVars, thrVars, eltVars, srvVars, connVars, histVars>>

(***************************************************************************)
(* Functors.  A queued functor is a record; "user" functors stand for      *)
(* application closures, identified by arg.  src records who appended it   *)
(* ("foreign", "pending", "handler", "preloop").                           *)
(***************************************************************************)
\* len is the payload length a sendInLoop functor captured, and the argument
\* bound into a high-water-mark functor
ConnTask(k, a, s, n) == [kind |-> k, arg |-> a, src |-> s, len |-> n]
Task(k, a, s) == ConnTask(k, a, s, 0)

\* pendingFunctors_.emplace_back(std::move(cb)) under mutex_
QueuePush_Front(pf, l, task) == [pf EXCEPT ![l] = <<task>> \o @]
QueuePush(pf, l, task) == [pf EXCEPT ![l] = Append(@, task)]

\* EventLoop::wakeup(): write(wakeupFd_, &one, 8) adds one to the counter
WakeupWrite(wf, l) == [wf EXCEPT ![l] = @ + 1]

\* the test in queueInLoop that decides whether wakeup() is called
NeedWakeup_CallerOnly(l, tid) == ~IsInLoopThread(l, tid)
NeedWakeup(l, tid) == ~IsInLoopThread(l, tid) \/ callingPendingFunctors_[l]

\* the test in quit() that decides whether wakeup() is called
QuitNeedsWakeup(l, tid) == ~IsInLoopThread(l, tid)

\* mutex_ at the closing brace of the block that holds the unique_lock
MutexAfterBlock_Held(m, l) == m
MutexAfterBlock(m, l) == [m EXCEPT ![l] = NoThread]

\* what pendingFunctors_ holds after functors.swap(pendingFunctors_):
\* the local vector was empty
PendingAfterSwap_Copy(pf) == pf
PendingAfterSwap(pf) == <<>>

\* the loop's pcs at which the owner is inside the while (!quit_) loop
IterPcs == {"test", "poll", "dispatch", "h_close", "h_error", "h_read", "h_write",
            "pend_begin", "swap", "run"}
\* the loop's pcs at which the owner is inside loop(): it has stored
\* looping_ = true and has not returned
InLoopPcs == {"reset"} \cup IterPcs
\* the loop's pcs at which the owner is in the range-for over activeChannels_
\* or in doPendingFunctors()
DispatchPcs == {"dispatch", "h_close", "h_error", "h_read", "h_write",
                "pend_begin", "swap", "run"}
\* where inside loop() a pc is: before quit_ = false ("entry"), inside the
\* while loop ("while", and "dispatching" past the poll of the iteration), or
\* outside loop() (nowhere)
QuitPlace(pc) ==
    IF pc \in DispatchPcs THEN {"while", "dispatching"}
    ELSE IF pc \in IterPcs THEN {"while"}
    ELSE IF pc \in InLoopPcs THEN {"entry"}
    ELSE {}

(***************************************************************************)
(* Channel::handleEventWithGuard.  The four tests on revents_, in the      *)
(* order of the code; a handler runs only if its std::function is set.     *)
(* Wakeup, user and acceptor channels have a read callback only.           *)
(***************************************************************************)
Phases == <<"h_close", "h_error", "h_read", "h_write">>

PhaseCond_CloseOnHup(k, r) ==
    CASE k = 1 -> "HUP" \in r
      [] k = 2 -> "ERR" \in r
      [] k = 3 -> r \cap {"IN", "PRI"} # {}
      [] k = 4 -> "OUT" \in r
PhaseCond(k, r) ==
    CASE k = 1 -> ("HUP" \in r) /\ ~("IN" \in r)
      [] k = 2 -> "ERR" \in r
      [] k = 3 -> r \cap {"IN", "PRI"} # {}
      [] k = 4 -> "OUT" \in r

\* which callbacks a channel has installed
HasCallback(ch, k) == IF ch \in Conns THEN TRUE ELSE k = 3

\* the first handler at or after phase k that handleEventWithGuard invokes on
\* channel ch; 5 when there is none
RECURSIVE PhaseFrom(_, _)
PhaseFrom(ch, k) ==
    IF k > 4 THEN 5
    ELSE IF PhaseCond(k, revents_[ch]) /\ HasCallback(ch, k) THEN k
    ELSE PhaseFrom(ch, k + 1)

CurChannel(l) == activeChannels_[l][activeIdx[l]]

\* the owner thread of loop l is inside handleEventWithGuard of channel ch
InHandlerOf(l, ch) ==
    /\ loopPc[l] \in {Phases[k] : k \in 1..4}
    /\ CurChannel(l) = ch

\* Channel::handleEvent of the tied user channel holds guard, the shared_ptr
\* that tie_.lock() returned, until handleEventWithGuard has returned
GuardHeld_Never == FALSE
GuardHeld == ioTied /\ InHandlerOf(0, IoCh)

\* the object the user channel is tied to has been destroyed: no shared_ptr to
\* it is left
OwnerExpired == ownerDestroyed \/ (ownerRefs = 0 /\ ~GuardHeld)

\* Channel::handleEvent: tied_ is set and tie_.lock() returns an empty pointer.
\* A connection's channel is dispatched only while connections_ or a queued
\* functor holds the connection, so its lock() succeeds.
TieLockFails_Never(ch) == FALSE
TieLockFails(ch) == ch = IoCh /\ ioTied /\ OwnerExpired

\* control after the handler of phase k of the current channel has returned:
\* the next handler of the same channel, or the next channel of the range-for
AfterHandler_BreakOnQuit(l, k) ==
    LET n == PhaseFrom(CurChannel(l), k + 1) IN
    IF quit_[l]
    THEN /\ loopPc' = [loopPc EXCEPT ![l] = "test"]
         /\ UNCHANGED activeIdx
    ELSE IF n <= 4
    THEN /\ loopPc' = [loopPc EXCEPT ![l] = Phases[n]]
         /\ UNCHANGED activeIdx
    ELSE /\ loopPc' = [loopPc EXCEPT ![l] = "dispatch"]
         /\ activeIdx' = [activeIdx EXCEPT ![l] = @ + 1]
AfterHandler(l, k) ==
    LET n == PhaseFrom(CurChannel(l), k + 1) IN
    IF n <= 4
    THEN /\ loopPc' = [loopPc EXCEPT ![l] = Phases[n]]
         /\ UNCHANGED activeIdx
    ELSE /\ loopPc' = [loopPc EXCEPT ![l] = "dispatch"]
         /\ activeIdx' = [activeIdx EXCEPT ![l] = @ + 1]

(***************************************************************************)
(* EventLoop::loop()                                                       *)
(***************************************************************************)
notLoopOps == <<chanVars, thrVars, eltVars, srvVars, connVars, taskHist, quitHist, srvHist,
               connCounts>>
notLoop == <<notLoopOps, lastOps>>

\* looping_ = true
LoopEnter(l) ==
    /\ loopPc[l] = "init"
    /\ looping_' = [looping_ EXCEPT ![l] = TRUE]
    /\ loopPc' = [loopPc EXCEPT ![l] = "reset"]
    /\ UNCHANGED <<quit_, callingPendingFunctors_, pendingFunctors_, functors,
                   activeChannels_, activeIdx, wakeupFd, notLoop>>

\* quit_ = false
LoopReset(l) ==
    /\ loopPc[l] = "reset"
    /\ quit_' = [quit_ EXCEPT ![l] = FALSE]
    /\ loopPc' = [loopPc EXCEPT ![l] = "test"]
    /\ UNCHANGED <<looping_, callingPendingFunctors_, pendingFunctors_, functors,
                   activeChannels_, activeIdx, wakeupFd, notLoop>>

\* while (!quit_) { activeChannels_.clear(); ... }  looping_ = false
LoopTest(l) ==
    /\ loopPc[l] = "test"
    /\ IF quit_[l]
       THEN /\ looping_' = [looping_ EXCEPT ![l] = FALSE]
            /\ loopPc' = [loopPc EXCEPT ![l] = "returned"]
            /\ UNCHANGED <<activeChannels_, activeIdx>>
       ELSE /\ activeChannels_' = [activeChannels_ EXCEPT ![l] = <<>>]
            /\ activeIdx' = [activeIdx EXCEPT ![l] = 1]
            /\ loopPc' = [loopPc EXCEPT ![l] = "poll"]
            /\ UNCHANGED looping_
    /\ UNCHANGED <<quit_, callingPendingFunctors_, pendingFunctors_, functors,
                   wakeupFd, notLoop>>

(***************************************************************************)
(* EPollPoller::poll.  epoll_wait is level-triggered: it reports the       *)
(* wakeup eventfd while its counter is positive and the listening socket   *)
(* while a connection waits to be accepted.  What a connected socket or    *)
(* the user channel reports is up to the peer: any non-empty mask of the   *)
(* requested events, EPOLLHUP and EPOLLERR (which epoll always reports).   *)
(***************************************************************************)
Perms(S) == {f \in [1..Cardinality(S) -> S] :
                \A i, j \in 1..Cardinality(S) : i # j => f[i] # f[j]}

ForcedReady(l) ==
    {ch \in epollSet[l] : \/ ch = WakeupCh(l) /\ wakeupFd[l] > 0
                          \/ ch = AcceptCh /\ backlog > 0}
MayBeReady(l) == epollSet[l] \cap ({IoCh} \cup Conns)
Reportable(ch) == {m \in SUBSET (events_[ch] \cup {"HUP", "ERR"}) : m # {}}

\* epoll_wait returns numEvents > 0; fillActiveChannels sets revents_ and
\* fills activeChannels_
Poll(l) ==
    /\ loopPc[l] = "poll"
    /\ \E opt \in SUBSET MayBeReady(l) :
         LET ready == ForcedReady(l) \cup opt
             socks == opt \cap Conns
         IN /\ ready # {}
            /\ Cardinality(socks) <= sockBudget
            /\ \E order \in Perms(ready) :
               \E mask \in [socks -> SUBSET EventBits] :
                 /\ \A c \in socks : mask[c] \in Reportable(c)
                 /\ activeChannels_' = [activeChannels_ EXCEPT ![l] = order]
                 /\ revents_' = [ch \in Channels |->
                                   IF ch \in socks THEN mask[ch]
                                   ELSE IF ch \in ready THEN {"IN"}
                                   ELSE revents_[ch]]
                 /\ sockBudget' = sockBudget - Cardinality(socks)
    /\ loopPc' = [loopPc EXCEPT ![l] = "dispatch"]
    /\ UNCHANGED <<looping_, quit_, callingPendingFunctors_, pendingFunctors_, functors,
                   activeIdx, wakeupFd>>
    /\ UNCHANGED <<events_, index_, channels_, epollSet>>
    /\ UNCHANGED <<state_, connLoop, tied_, outLen, writeShut, published, connCfg,
                   sendsLeft>>
    /\ UNCHANGED <<thrVars, eltVars, srvVars, histVars>>

\* epoll_wait returns 0 after kPollTimeMs (or -1 with EINTR): no active channel
PollTimeout(l) ==
    /\ loopPc[l] = "poll"
    /\ loopPc' = [loopPc EXCEPT ![l] = "dispatch"]
    /\ UNCHANGED <<looping_, quit_, callingPendingFunctors_, pendingFunctors_, functors,
                   activeChannels_, activeIdx, wakeupFd, notLoop>>

\* for (Channel *channel : activeChannels_) channel->handleEvent(pollReturnTime_);
\* then doPendingFunctors()
DispatchNext(l) ==
    /\ loopPc[l] = "dispatch"
    /\ IF activeIdx[l] > Len(activeChannels_[l])
       THEN /\ loopPc' = [loopPc EXCEPT ![l] = "pend_begin"]
            /\ UNCHANGED activeIdx
       ELSE LET n == IF TieLockFails(CurChannel(l)) THEN 5
                     ELSE PhaseFrom(CurChannel(l), 1)
            IN
            IF n <= 4
            THEN /\ loopPc' = [loopPc EXCEPT ![l] = Phases[n]]
                 /\ UNCHANGED activeIdx
            ELSE /\ activeIdx' = [activeIdx EXCEPT ![l] = @ + 1]
                 /\ UNCHANGED loopPc
    /\ lastOps' = <<>>
    /\ UNCHANGED <<looping_, quit_, callingPendingFunctors_, pendingFunctors_, functors,
                   activeChannels_, wakeupFd, notLoopOps>>

\* EventLoop::handleRead: read(wakeupFd_, &one, 8) resets the eventfd counter
WakeupHandleRead(l) ==
    /\ loopPc[l] = "h_read"
    /\ CurChannel(l) = WakeupCh(l)
    /\ wakeupFd' = [wakeupFd EXCEPT ![l] = 0]
    /\ AfterHandler(l, 3)
    /\ UNCHANGED <<looping_, quit_, callingPendingFunctors_, pendingFunctors_, functors,
                   activeChannels_, notLoop>>

(***************************************************************************)
(* EventLoop::doPendingFunctors()                                          *)
(***************************************************************************)
\* callingPendingFunctors_ = true
DoPendingBegin(l) ==
    /\ loopPc[l] = "pend_begin"
    /\ callingPendingFunctors_' = [callingPendingFunctors_ EXCEPT ![l] = TRUE]
    /\ loopPc' = [loopPc EXCEPT ![l] = "swap"]
    /\ UNCHANGED <<looping_, quit_, pendingFunctors_, functors, activeChannels_,
                   activeIdx, wakeupFd, notLoop>>

\* { lock; functors.swap(pendingFunctors_); }
DoPendingSwap(l) ==
    /\ loopPc[l] = "swap"
    /\ functors' = [functors EXCEPT ![l] = pendingFunctors_[l]]
    /\ pendingFunctors_' = [pendingFunctors_ EXCEPT ![l] = PendingAfterSwap(@)]
    /\ loopPc' = [loopPc EXCEPT ![l] = "run"]
    /\ UNCHANGED <<looping_, quit_, callingPendingFunctors_, activeChannels_,
                   activeIdx, wakeupFd, notLoop>>

\* callingPendingFunctors_ = false, after the for loop over functors
DoPendingEnd(l) ==
    /\ loopPc[l] = "run"
    /\ functors[l] = <<>>
    /\ callingPendingFunctors_' = [callingPendingFunctors_ EXCEPT ![l] = FALSE]
    /\ loopPc' = [loopPc EXCEPT ![l] = "test"]
    /\ lastOps' = <<>>
    /\ UNCHANGED <<looping_, quit_, pendingFunctors_, functors, activeChannels_,
                   activeIdx, wakeupFd, notLoopOps>>

\* the steps of loop() and doPendingFunctors() that touch no functor and no
\* channel other than the wakeup channel
LoopStep(l) ==
    \/ LoopEnter(l)
    \/ LoopReset(l)
    \/ LoopTest(l)
    \/ Poll(l)
    \/ DispatchNext(l)
    \/ WakeupHandleRead(l)
    \/ DoPendingBegin(l)
    \/ DoPendingSwap(l)
    \/ DoPendingEnd(l)

(***************************************************************************)
(* User tasks.  An application closure handed to runInLoop/queueInLoop     *)
(* may itself hand a further closure to the same loop.                     *)
(***************************************************************************)
UserModes == {"none", "queue", "run"}

\* queueInLoop(cb) called by the owner thread of loop l: the append under
\* mutex_, then the wakeup test
OwnerQueueUser(l, src) ==
    /\ nextTask <= MaxTasks
    /\ pendingFunctors_' = QueuePush(pendingFunctors_, l, Task("user", nextTask, src))
    /\ wakeupFd' = IF NeedWakeup(l, threadId_(l)) THEN WakeupWrite(wakeupFd, l)
                   ELSE wakeupFd
    /\ appended' = [appended EXCEPT ![l] = Append(@, nextTask)]
    /\ nextTask' = nextTask + 1

\* the application code of a task or handler running on tid, on behalf of loop l:
\* returns, or calls queueInLoop(g), or calls runInLoop(g), g a fresh closure;
\* done is what this code has invoked so far
UserCode(l, tid, src, mode, done) ==
    CASE mode = "none" ->
            /\ executed' = executed \o done
            /\ UNCHANGED <<pendingFunctors_, wakeupFd, appended, nextTask>>
      [] mode = "queue" ->
            /\ OwnerQueueUser(l, src)
            /\ executed' = executed \o done
      [] mode = "run" ->
            /\ nextTask <= MaxTasks
            /\ IF IsInLoopThread(l, tid)
               THEN /\ executed' = executed \o done \o <<(<<nextTask, tid>>)>>
                    /\ nextTask' = nextTask + 1
                    /\ UNCHANGED <<pendingFunctors_, wakeupFd, appended>>
               ELSE /\ OwnerQueueUser(l, src)
                    /\ executed' = executed \o done

\* for (const Functor &functor : functors) functor();  -- a user closure
RunUserTask(l) ==
    /\ loopPc[l] = "run"
    /\ functors[l] # <<>>
    /\ Head(functors[l]).kind = "user"
    /\ functors' = [functors EXCEPT ![l] = Tail(@)]
    /\ \E mode \in UserModes :
         UserCode(l, threadId_(l), "pending", mode,
                  <<(<<Head(functors[l]).arg, threadId_(l)>>)>>)
    /\ UNCHANGED <<loopPc, looping_, quit_, callingPendingFunctors_, activeChannels_,
                   activeIdx>>
    /\ UNCHANGED <<chanVars, thrVars, eltVars, srvVars, connVars>>
    /\ UNCHANGED <<quitHist, srvHist, connHist>>

\* the read callback of the user channel
IoHandleRead(l) ==
    /\ loopPc[l] = "h_read"
    /\ CurChannel(l) = IoCh
    /\ \E mode \in UserModes : UserCode(l, threadId_(l), "handler", mode, <<>>)
    /\ AfterHandler(l, 3)
    /\ UNCHANGED <<looping_, quit_, callingPendingFunctors_, functors, activeChannels_>>
    /\ UNCHANGED <<chanVars, thrVars, eltVars, srvVars, connVars>>
    /\ UNCHANGED <<quitHist, srvHist, connHist>>

\* the owner thread calls queueInLoop on its loop before it calls loop()
OwnerQueueBeforeLoop(l) ==
    /\ loopPc[l] = "init"
    /\ OwnerQueueUser(l, "preloop")
    /\ UNCHANGED <<loopPc, looping_, quit_, callingPendingFunctors_, functors,
                   activeChannels_, activeIdx, executed>>
    /\ UNCHANGED <<chanVars, thrVars, eltVars, srvVars, connVars>>
    /\ UNCHANGED <<quitHist, srvHist, connHist>>

(***************************************************************************)
(* Foreign threads: queueInLoop, runInLoop and quit on loop l.             *)
(***************************************************************************)
Constructed(l) == loopPc[l] # "none"

\* queueInLoop, first half: { lock; pendingFunctors_.emplace_back(cb); }
ForeignQueueInLoop(t, l) ==
    /\ thrPc[t] = "idle"
    /\ Constructed(l)
    /\ nextTask <= MaxTasks
    /\ pendingFunctors_' = QueuePush(pendingFunctors_, l, Task("user", nextTask, "foreign"))
    /\ appended' = [appended EXCEPT ![l] = Append(@, nextTask)]
    /\ nextTask' = nextTask + 1
    /\ thrPc' = [thrPc EXCEPT ![t] = "qil_wake"]
    /\ thrLoop' = [thrLoop EXCEPT ![t] = l]
    /\ UNCHANGED <<loopPc, looping_, quit_, callingPendingFunctors_, functors,
                   activeChannels_, activeIdx, wakeupFd, thrCall, executed>>
    /\ UNCHANGED <<chanVars, eltVars, srvVars, connVars>>
    /\ UNCHANGED <<quitHist, srvHist, connHist>>

\* runInLoop(cb): cb() if isInLoopThread(), else queueInLoop(cb)
ForeignRunInLoop(t, l) ==
    /\ thrPc[t] = "idle"
    /\ Constructed(l)
    /\ nextTask <= MaxTasks
    /\ nextTask' = nextTask + 1
    /\ IF IsInLoopThread(l, ForeignTid(t))
       THEN /\ executed' = Append(executed, <<nextTask, ForeignTid(t)>>)
            /\ UNCHANGED <<pendingFunctors_, appended, thrPc, thrLoop>>
       ELSE /\ pendingFunctors_' =
                   QueuePush(pendingFunctors_, l, Task("user", nextTask, "foreign"))
            /\ appended' = [appended EXCEPT ![l] = Append(@, nextTask)]
            /\ thrPc' = [thrPc EXCEPT ![t] = "qil_wake"]
            /\ thrLoop' = [thrLoop EXCEPT ![t] = l]
            /\ UNCHANGED executed
    /\ UNCHANGED <<loopPc, looping_, quit_, callingPendingFunctors_, functors,
                   activeChannels_, activeIdx, wakeupFd, thrCall>>
    /\ UNCHANGED <<chanVars, eltVars, srvVars, connVars>>
    /\ UNCHANGED <<quitHist, srvHist, connHist>>

\* queueInLoop, second half: if (!isInLoopThread() || callingPendingFunctors_) wakeup();
ForeignQueueWakeup(t) ==
    /\ thrPc[t] = "qil_wake"
    /\ wakeupFd' = IF NeedWakeup(thrLoop[t], ForeignTid(t))
                   THEN WakeupWrite(wakeupFd, thrLoop[t])
                   ELSE wakeupFd
    /\ thrPc' = [thrPc EXCEPT ![t] = "idle"]
    /\ UNCHANGED <<loopPc, looping_, quit_, callingPendingFunctors_, pendingFunctors_,
                   functors, activeChannels_, activeIdx, thrLoop, thrCall>>
    /\ UNCHANGED <<chanVars, eltVars, srvVars, connVars, histVars>>

\* quit(), first half: quit_ = true
ForeignQuit(t, l) ==
    /\ thrPc[t] = "idle"
    /\ Constructed(l)
    /\ quitsLeft > 0
    /\ quitsLeft' = quitsLeft - 1
    /\ quit_' = [quit_ EXCEPT ![l] = TRUE]
    /\ quitPcs' = [quitPcs EXCEPT ![l] = @ \cup QuitPlace(loopPc[l])]
    /\ thrPc' = [thrPc EXCEPT ![t] = "quit_wake"]
    /\ thrLoop' = [thrLoop EXCEPT ![t] = l]
    /\ UNCHANGED <<loopPc, looping_, callingPendingFunctors_, pendingFunctors_, functors,
                   activeChannels_, activeIdx, wakeupFd, thrCall>>
    /\ UNCHANGED <<chanVars, eltVars, srvVars, connVars>>
    /\ UNCHANGED <<taskHist, srvHist, connHist>>

\* quit(), second half: if (!isInLoopThread()) wakeup();
ForeignQuitWakeup(t) ==
    /\ thrPc[t] = "quit_wake"
    /\ wakeupFd' = IF QuitNeedsWakeup(thrLoop[t], ForeignTid(t))
                   THEN WakeupWrite(wakeupFd, thrLoop[t])
                   ELSE wakeupFd
    /\ thrPc' = [thrPc EXCEPT ![t] = "idle"]
    /\ UNCHANGED <<loopPc, looping_, quit_, callingPendingFunctors_, pendingFunctors_,
                   functors, activeChannels_, activeIdx, thrLoop, thrCall>>
    /\ UNCHANGED <<chanVars, eltVars, srvVars, connVars, histVars>>

(***************************************************************************)
(* Channel::update / Channel::remove, that is EPollPoller::updateChannel   *)
(* and EPollPoller::removeChannel, as functions of the poller's state.     *)
(***************************************************************************)
PollerState == [ev |-> events_, idx |-> index_, chs |-> channels_, ep |-> epollSet]

\* events_ = ev; update(): EPOLL_CTL_ADD for a new or deleted channel (whatever
\* ev is), EPOLL_CTL_DEL for an added channel without events, else EPOLL_CTL_MOD
UpdateChannel(p, ch, l, ev) ==
    IF p.idx[ch] \in {kNew, kDeleted}
    THEN [ev  |-> [p.ev EXCEPT ![ch] = ev],
          idx |-> [p.idx EXCEPT ![ch] = kAdded],
          chs |-> IF p.idx[ch] = kNew THEN [p.chs EXCEPT ![l] = @ \cup {ch}] ELSE p.chs,
          ep  |-> [p.ep EXCEPT ![l] = @ \cup {ch}]]
    ELSE IF ev = kNoneEvent
    THEN [ev  |-> [p.ev EXCEPT ![ch] = ev],
          idx |-> [p.idx EXCEPT ![ch] = kDeleted],
          chs |-> p.chs,
          ep  |-> [p.ep EXCEPT ![l] = @ \ {ch}]]
    ELSE [ev  |-> [p.ev EXCEPT ![ch] = ev],
          idx |-> p.idx,
          chs |-> p.chs,
          ep  |-> p.ep]

\* channels_.erase(fd); EPOLL_CTL_DEL if the channel is added; index_ = kNew
RemoveChannel_KeepTag(p, ch, l) ==
    [ev  |-> p.ev,
     idx |-> p.idx,
     chs |-> [p.chs EXCEPT ![l] = @ \ {ch}],
     ep  |-> IF p.idx[ch] = kAdded THEN [p.ep EXCEPT ![l] = @ \ {ch}] ELSE p.ep]
RemoveChannel(p, ch, l) ==
    [ev  |-> p.ev,
     idx |-> [p.idx EXCEPT ![ch] = kNew],
     chs |-> [p.chs EXCEPT ![l] = @ \ {ch}],
     ep  |-> IF p.idx[ch] = kAdded THEN [p.ep EXCEPT ![l] = @ \ {ch}] ELSE p.ep]

\* ::getenv returns a null pointer: the variable is not in the environment
NoEnv == "(null)"
\* Poller::newDefaultPoller: the poller of a loop constructed in environment env
NewDefaultPoller(env) == IF env # NoEnv THEN "nullptr" ELSE "EPollPoller"

\* EventLoop::EventLoop for each loop of S, with an EPollPoller:
\* wakeupChannel_->enableReading()
ConstructLoops(p, S) ==
    LET W == {WakeupCh(l) : l \in S} IN
    [ev  |-> [ch \in Channels |-> IF ch \in W THEN kReadEvent ELSE p.ev[ch]],
     idx |-> [ch \in Channels |-> IF ch \in W THEN kAdded ELSE p.idx[ch]],
     chs |-> [l \in Loops |-> IF l \in S THEN p.chs[l] \cup {WakeupCh(l)} ELSE p.chs[l]],
     ep  |-> [l \in Loops |-> IF l \in S THEN p.ep[l] \cup {WakeupCh(l)} ELSE p.ep[l]]]

SetPoller(p) ==
    /\ events_' = p.ev
    /\ index_' = p.idx
    /\ channels_' = p.chs
    /\ epollSet' = p.ep

poller == <<events_, index_, channels_, epollSet>>

(***************************************************************************)
(* EventLoopThread: startLoop(), threadFunc() and the destructor.  The     *)
(* EventLoopThread object belongs to foreign thread EltOwner; its spawned  *)
(* thread has thread id EltLoop and constructs loop EltLoop.               *)
(***************************************************************************)
EltOwner == 1
EltLoop == 1

\* startLoop(): thread_.start()
EltStartLoop(t) ==
    /\ t = EltOwner
    /\ thrPc[t] = "idle"
    /\ tfPc = "unstarted"
    /\ tfPc' = "construct"
    /\ thrPc' = [thrPc EXCEPT ![t] = "sl_wait"]
    /\ UNCHANGED <<thrLoop, thrCall, eltLoop_, exiting_>>
    /\ UNCHANGED <<loopVars, chanVars, srvVars, connVars, histVars>>

\* threadFunc(): EventLoop loop; (and the thread-init callback)
ThreadFuncConstruct ==
    /\ tfPc = "construct"
    /\ loopPc' = [loopPc EXCEPT ![EltLoop] = "init"]
    /\ SetPoller(ConstructLoops(PollerState, {EltLoop}))
    /\ tfPc' = "publish"
    /\ UNCHANGED <<looping_, quit_, callingPendingFunctors_, pendingFunctors_, functors,
                   activeChannels_, activeIdx, wakeupFd, revents_, eltLoop_, exiting_>>
    /\ UNCHANGED <<thrVars, srvVars, connVars, histVars>>

\* threadFunc(): { lock; loop_ = &loop; cond_.notify_one(); }
ThreadFuncPublish ==
    /\ tfPc = "publish"
    /\ eltLoop_' = EltLoop
    /\ tfPc' = "loop"
    /\ UNCHANGED exiting_
    /\ UNCHANGED <<loopVars, chanVars, thrVars, srvVars, connVars, histVars>>

\* threadFunc(): after loop.loop() has returned, { lock; loop_ = nullptr; }
ThreadFuncExit ==
    /\ tfPc = "loop"
    /\ loopPc[EltLoop] = "returned"
    /\ eltLoop_' = NullLoop
    /\ tfPc' = "exited"
    /\ UNCHANGED exiting_
    /\ UNCHANGED <<loopVars, chanVars, thrVars, srvVars, connVars, histVars>>

\* startLoop(): while (loop_ == nullptr) cond_.wait(lock); return loop_
EltStartLoopReturn(t) ==
    /\ thrPc[t] = "sl_wait"
    /\ eltLoop_ # NullLoop
    /\ thrPc' = [thrPc EXCEPT ![t] = "has_loop"]
    /\ thrLoop' = [thrLoop EXCEPT ![t] = eltLoop_]
    /\ UNCHANGED thrCall
    /\ UNCHANGED <<loopVars, chanVars, eltVars, srvVars, connVars, histVars>>

\* ~EventLoopThread(): exiting_ = true; if (loop_ != nullptr) ...
\* The application destroys the object once no other thread uses its loop.
EltDestructorBegin(t) ==
    /\ thrPc[t] = "has_loop"
    /\ \A u \in Foreign \ {t} : thrPc[u] = "idle"
    /\ exiting_' = TRUE
    /\ thrPc' = [thrPc EXCEPT ![t] = IF eltLoop_ # NullLoop THEN "dtor_quit"
                                     ELSE "dtor_done"]
    /\ thrLoop' = [thrLoop EXCEPT ![t] = eltLoop_]
    /\ UNCHANGED <<thrCall, eltLoop_, tfPc>>
    /\ UNCHANGED <<loopVars, chanVars, srvVars, connVars, histVars>>

\* ~EventLoopThread(): loop_->quit(), first half: quit_ = true
EltDestructorQuit(t) ==
    /\ thrPc[t] = "dtor_quit"
    /\ quit_' = [quit_ EXCEPT ![thrLoop[t]] = TRUE]
    /\ thrPc' = [thrPc EXCEPT ![t] = "dtor_wake"]
    /\ UNCHANGED <<loopPc, looping_, callingPendingFunctors_, pendingFunctors_, functors,
                   activeChannels_, activeIdx, wakeupFd, thrLoop, thrCall>>
    /\ UNCHANGED <<chanVars, eltVars, srvVars, connVars, histVars>>

\* ~EventLoopThread(): loop_->quit(), second half: if (!isInLoopThread()) wakeup();
EltDestructorWakeup(t) ==
    /\ thrPc[t] = "dtor_wake"
    /\ wakeupFd' = IF QuitNeedsWakeup(thrLoop[t], ForeignTid(t))
                   THEN WakeupWrite(wakeupFd, thrLoop[t])
                   ELSE wakeupFd
    /\ thrPc' = [thrPc EXCEPT ![t] = "dtor_join"]
    /\ UNCHANGED <<loopPc, looping_, quit_, callingPendingFunctors_, pendingFunctors_,
                   functors, activeChannels_, activeIdx, thrLoop, thrCall>>
    /\ UNCHANGED <<chanVars, eltVars, srvVars, connVars, histVars>>

\* ~EventLoopThread(): thread_.join() returns once threadFunc has returned
EltDestructorJoin(t) ==
    /\ thrPc[t] = "dtor_join"
    /\ tfPc = "exited"
    /\ thrPc' = [thrPc EXCEPT ![t] = "dtor_done"]
    /\ UNCHANGED <<thrLoop, thrCall>>
    /\ UNCHANGED <<loopVars, chanVars, eltVars, srvVars, connVars, histVars>>

(***************************************************************************)
(* EventLoopThreadPool and TcpServer::start().                             *)
(***************************************************************************)
\* EventLoopThreadPool::start: the loops the new EventLoopThreads construct;
\* each startLoop() returns once its loop is published
StartedLoops == {Len(loops_) + i : i \in 1..numThreads_}
LoopsAfterStart == loops_ \o [i \in 1..numThreads_ |-> Len(loops_) + i]

\* EventLoopThreadPool::start, after its for loop: if (numThreads_ == 0 && cb)
BaseLoopCallback_Always(n, cb) == cb
BaseLoopCallback(n, cb) == n = 0 /\ cb

\* started_++ == 0
StartWins_Always(old) == TRUE
StartWins(old) == old = 0

\* ++next_; if (next_ >= loops_.size()) next_ = 0;
NextAfter_WrapEarly(n, size) == IF n + 2 >= size THEN 0 ELSE n + 1
NextAfter(n, size) == IF n + 1 >= size THEN 0 ELSE n + 1

\* EventLoopThreadPool::getNextLoop: the loop it returns (baseLoop_ is loop 0)
\* and the value it leaves in next_
GetNextLoop == IF loops_ # <<>> THEN loops_[next_ + 1] ELSE 0
NextAfterGet == IF loops_ # <<>> THEN NextAfter(next_, Len(loops_)) ELSE next_

\* Acceptor::listen(): listenning_ = true; listen(); acceptChannel_.enableReading()
ListenBody ==
    /\ listening_' = TRUE
    /\ SetPoller(UpdateChannel(PollerState, AcceptCh, 0, events_[AcceptCh] \cup kReadEvent))
    /\ listenCalls' = listenCalls + 1

srvRest == <<numThreads_, next_, nextConnId_, connections_, backlog, clientsLeft>>

\* start() on the base loop's thread before it calls loop(): started_++ == 0
MainStart ==
    /\ loopPc[0] = "init"
    /\ startsLeft > 0
    /\ startsLeft' = startsLeft - 1
    /\ started_' = started_ + 1
    /\ loopPc' = [loopPc EXCEPT ![0] = IF StartWins(started_) THEN "start_pool" ELSE @]
    /\ UNCHANGED <<looping_, quit_, callingPendingFunctors_, pendingFunctors_, functors,
                   activeChannels_, activeIdx, wakeupFd, loops_, listening_, srvRest>>
    /\ UNCHANGED <<chanVars, thrVars, eltVars, connVars, histVars>>

\* start() on the base loop's thread, the guarded block: threadPool_->start();
\* loop_->runInLoop(listen) runs Acceptor::listen at once
MainStartPool ==
    /\ loopPc[0] = "start_pool"
    /\ loops_' = LoopsAfterStart
    /\ poolStarts' = poolStarts + 1
    /\ loopPc' = [l \in Loops |-> IF l = 0 \/ l \in StartedLoops THEN "init" ELSE loopPc[l]]
    /\ listening_' = TRUE
    /\ SetPoller(UpdateChannel(ConstructLoops(PollerState, StartedLoops \cap Loops),
                               AcceptCh, 0, events_[AcceptCh] \cup kReadEvent))
    /\ listenCalls' = listenCalls + 1
    /\ UNCHANGED <<looping_, quit_, callingPendingFunctors_, pendingFunctors_, functors,
                   activeChannels_, activeIdx, wakeupFd, revents_, started_, startsLeft,
                   srvRest>>
    /\ UNCHANGED <<thrVars, eltVars, connVars, taskHist, quitHist, connHist>>

\* start() on a foreign thread: started_++ == 0
ForeignStart(t) ==
    /\ thrPc[t] = "idle"
    /\ startsLeft > 0
    /\ startsLeft' = startsLeft - 1
    /\ started_' = started_ + 1
    /\ thrPc' = [thrPc EXCEPT ![t] = IF StartWins(started_) THEN "start_pool" ELSE @]
    /\ UNCHANGED <<thrLoop, thrCall, loops_, listening_, srvRest>>
    /\ UNCHANGED <<loopVars, chanVars, eltVars, connVars, histVars>>

\* start() on a foreign thread, the guarded block: threadPool_->start();
\* loop_->runInLoop(listen) is queueInLoop, whose first half appends
ForeignStartPool(t) ==
    /\ thrPc[t] = "start_pool"
    /\ loops_' = LoopsAfterStart
    /\ poolStarts' = poolStarts + 1
    /\ loopPc' = [l \in Loops |-> IF l \in StartedLoops THEN "init" ELSE loopPc[l]]
    /\ SetPoller(ConstructLoops(PollerState, StartedLoops \cap Loops))
    /\ pendingFunctors_' = QueuePush(pendingFunctors_, 0, Task("listen", 0, "foreign"))
    /\ thrPc' = [thrPc EXCEPT ![t] = "qil_wake"]
    /\ thrLoop' = [thrLoop EXCEPT ![t] = 0]
    /\ UNCHANGED <<looping_, quit_, callingPendingFunctors_, functors, activeChannels_,
                   activeIdx, wakeupFd, revents_, thrCall, started_, startsLeft,
                   listening_, listenCalls, srvRest>>
    /\ UNCHANGED <<eltVars, connVars, taskHist, quitHist, connHist>>

\* the queued functor std::bind(&Acceptor::listen, acceptor_.get())
RunListen(l) ==
    /\ loopPc[l] = "run"
    /\ functors[l] # <<>>
    /\ Head(functors[l]).kind = "listen"
    /\ functors' = [functors EXCEPT ![l] = Tail(@)]
    /\ ListenBody
    /\ UNCHANGED <<loopPc, looping_, quit_, callingPendingFunctors_, pendingFunctors_,
                   activeChannels_, activeIdx, wakeupFd, revents_, started_, loops_,
                   startsLeft, poolStarts, srvRest>>
    /\ UNCHANGED <<thrVars, eltVars, connVars, taskHist, quitHist, connHist>>

\* a client completes the TCP handshake with the listening socket
ClientConnect ==
    /\ listening_
    /\ clientsLeft > 0
    /\ clientsLeft' = clientsLeft - 1
    /\ backlog' = backlog + 1
    /\ UNCHANGED <<started_, numThreads_, loops_, next_, nextConnId_, connections_,
                   listening_, startsLeft>>
    /\ UNCHANGED <<loopVars, chanVars, thrVars, eltVars, connVars, histVars>>

(***************************************************************************)
(* TcpConnection.  The bodies below run on the thread of the connection's  *)
(* loop; state_ is the only field another thread writes (shutdown()).      *)
(* When a loop's thread queues a functor on another loop, the append and   *)
(* the wakeup that follows it are taken as one step.                       *)
(***************************************************************************)
\* Channel::isWriting()
IsWriting(ev) == ev \cap kWriteEvent # {}

\* Channel::enableReading: events_ |= kReadEvent
EnableReading_Nop(ev) == ev
EnableReading(ev) == ev \cup kReadEvent

\* A record of one operation on a connection or on the poller: who ran it, its
\* input (len), what the system call returned (n, -1 for a failure), the output
\* buffer's readable length, the channel's events_ and state_ before and after
\* it, the functors it queued (wc: the write-complete callback; hwm: the
\* arguments of the high-water-mark callbacks), whether it called
\* shutdownWrite() and closeCallback_, how many write-complete functors of the
\* connection were queued and not yet invoked when it invoked a user callback,
\* and the channel's index_ and membership of channels_ after it.
NoOp ==
    [op |-> "none", conn |-> 0, thread |-> -1, len |-> 0, direct |-> FALSE, n |-> 0,
     old |-> 0, new |-> 0, evOld |-> {}, evNew |-> {}, stOld |-> "none",
     stNew |-> "none", wc |-> FALSE, hwm |-> <<>>, shut |-> FALSE, closeCb |-> FALSE,
     wcWaiting |-> 0, tag |-> kNew, inMap |-> FALSE, erase |-> FALSE]

\* the record of an operation that changes nothing, run by thread tid on
\* connection c
OpRec(op, c, tid) ==
    [NoOp EXCEPT !.op = op, !.conn = c, !.thread = tid,
                 !.old = outLen[c], !.new = outLen[c],
                 !.evOld = events_[c], !.evNew = events_[c],
                 !.stOld = state_[c], !.stNew = state_[c]]

\* the write-complete functors of connection c that loop l holds, queued and not
\* yet invoked
CountWc(seq, c) ==
    Cardinality({i \in 1..Len(seq) : seq[i].kind = "writeComplete" /\ seq[i].arg = c})
WcWaiting(c, l) == CountWc(pendingFunctors_[l], c) + CountWc(functors[l], c)

\* one invocation of connectionCallback_: what conn->connected() returns in it
CbEntry(from, st) == [from |-> from, connected |-> st = "kConnected"]

\* TcpConnection::connectEstablished on connection c of loop l
ConnectEstablishedBody(c, l) ==
    /\ state_' = [state_ EXCEPT ![c] = "kConnected"]
    /\ tied_' = [tied_ EXCEPT ![c] = TRUE]
    /\ SetPoller(UpdateChannel(PollerState, c, l, EnableReading(events_[c])))
    /\ cbLog' = [cbLog EXCEPT ![c] = Append(@, CbEntry("established", "kConnected"))]
    /\ published' = [published EXCEPT ![c] = TRUE]
    /\ estRuns' = [estRuns EXCEPT ![c] = @ + 1]

\* loop_->runInLoop(removeConnectionInLoop) called by thread tid runs the
\* functor at once: loop_ is the base loop
ErasesAtOnce_Always(tid) == TRUE
ErasesAtOnce(tid) == IsInLoopThread(0, tid)

\* closeCallback_, that is TcpServer::removeConnection called on the thread of
\* loop l: loop_->runInLoop(removeConnectionInLoop).  On the base loop's thread
\* removeConnectionInLoop runs at once (erase, ioLoop->queueInLoop(connectDestroyed));
\* on another thread it is queued on the base loop, with a wakeup.
RemoveConnection(c, l) ==
    IF ErasesAtOnce(threadId_(l))
    THEN /\ connections_' = connections_ \ {c}
         /\ pendingFunctors_' =
                QueuePush(pendingFunctors_, connLoop[c], Task("connectDestroyed", c, "handler"))
         /\ wakeupFd' = IF NeedWakeup(connLoop[c], threadId_(l))
                        THEN WakeupWrite(wakeupFd, connLoop[c])
                        ELSE wakeupFd
    ELSE /\ pendingFunctors_' =
                QueuePush(pendingFunctors_, 0, Task("removeConnectionInLoop", c, "handler"))
         /\ wakeupFd' = IF NeedWakeup(0, threadId_(l)) THEN WakeupWrite(wakeupFd, 0)
                        ELSE wakeupFd
         /\ UNCHANGED connections_

\* the poller when closeCallback_ returns to handleClose on the thread of loop
\* l: removeConnectionInLoop hands connectDestroyed to ioLoop->queueInLoop, which
\* never runs the functor on the spot, so channel_->remove() has not run
PollerAfterCloseCallback_Nested(p, c, l) == RemoveChannel(p, c, l)
PollerAfterCloseCallback(p, c, l) == p

\* setState(kDisconnected) in handleClose
StateAfterClose_Keep(s) == s
StateAfterClose(s) == "kDisconnected"

\* TcpConnection::handleClose on connection c, on the thread of loop l
HandleCloseBody(c, l) ==
    /\ state_' = [state_ EXCEPT ![c] = StateAfterClose(@)]
    /\ SetPoller(PollerAfterCloseCallback(UpdateChannel(PollerState, c, l, kNoneEvent),
                                          c, l))
    /\ cbLog' = [cbLog EXCEPT ![c] = Append(@, CbEntry("close", StateAfterClose(state_[c])))]
    /\ closeRuns' = [closeRuns EXCEPT ![c] = @ + 1]
    /\ RemoveConnection(c, l)

\* what handleClose leaves of an operation's record
ClosedRec(rec) ==
    [rec EXCEPT !.stNew = StateAfterClose(rec.stOld), !.evNew = kNoneEvent,
                !.closeCb = TRUE, !.erase = ErasesAtOnce(rec.thread)]

\* what no handler of a connection's channel changes
handlerFrame ==
    <<looping_, quit_, callingPendingFunctors_, functors, activeChannels_, revents_,
      thrVars, eltVars, started_, numThreads_, loops_, next_, nextConnId_, listening_,
      backlog, clientsLeft, startsLeft, connLoop, tied_, published, sockBudget, connCfg,
      taskHist, quitHist, srvHist, estRuns, destroyedRuns>>

closeEffects ==
    <<pendingFunctors_, wakeupFd, poller, connections_, state_, closeRuns, cbLog>>

\* channel_'s close callback: TcpConnection::handleClose
ConnHandleClose(l) ==
    /\ loopPc[l] = "h_close"
    /\ CurChannel(l) \in Conns
    /\ HandleCloseBody(CurChannel(l), l)
    /\ lastOps' = <<ClosedRec([OpRec("handleClose", CurChannel(l), threadId_(l))
                                 EXCEPT !.wcWaiting = WcWaiting(CurChannel(l), l)])>>
    /\ AfterHandler(l, 1)
    /\ UNCHANGED <<handlerFrame, outLen, writeShut, sendsLeft>>

\* channel_'s error callback: TcpConnection::handleError reads SO_ERROR and logs
ConnHandleError(l) ==
    /\ loopPc[l] = "h_error"
    /\ CurChannel(l) \in Conns
    /\ AfterHandler(l, 2)
    /\ UNCHANGED closeEffects
    /\ UNCHANGED <<handlerFrame, outLen, writeShut, sendsLeft, lastOps>>

(***************************************************************************)
(* TcpConnection::sendInLoop and TcpConnection::handleWrite.  ::write      *)
(* accepts some or all of the bytes or fails; on a socket whose write half *)
(* has been shut down it fails with EPIPE.                                 *)
(***************************************************************************)
\* the errno values for which sendInLoop sets faultError
FaultErrnos == {"EPIPE", "ECONNRESET"}

\* what ::write(fd, data, len) returns: n, and errno when n = -1
WriteResults(len, shut) ==
    IF shut THEN {[n |-> -1, err |-> "EPIPE"]}
    ELSE {[n |-> k, err |-> "none"] : k \in IF len = 0 THEN {0} ELSE 1..len}
         \cup {[n |-> -1, err |-> e] : e \in {"EWOULDBLOCK", "EINTR"} \cup FaultErrnos}

\* sendInLoop's test before the append: the buffer reaches highWaterMark_ from below
HighWaterCrossed_NoFloor(oldLen, remaining) == oldLen + remaining >= HighWaterMark
HighWaterCrossed(oldLen, remaining) ==
    oldLen + remaining >= HighWaterMark /\ oldLen < HighWaterMark

\* handleWrite's test after retrieve(n): outputBuffer_.readableBytes() == 0
BufferEmptied_Always(rest) == TRUE
BufferEmptied(rest) == rest = 0

\* sendInLoop tries ::write at once: the connection is not kDisconnected, the
\* channel is not writing and the output buffer is empty
SendsDirectly(c) ==
    /\ state_[c] # "kDisconnected"
    /\ ~IsWriting(events_[c])
    /\ outLen[c] = 0

\* the results of the ::write sendInLoop(data, len) makes on connection c, if it
\* makes one
SendWrites(c, len) ==
    IF SendsDirectly(c) THEN WriteResults(len, writeShut[c])
    ELSE {[n |-> 0, err |-> "none"]}

\* TcpConnection::sendInLoop(data, len) on connection c when its ::write, if it
\* makes one, returns w: the new readable length of outputBuffer_, the new
\* events_, whether Channel::update() is called, and the functor it queues
SendInLoop(c, len, w, tid) ==
    LET oldLen == outLen[c]
        direct == SendsDirectly(c)
        nwrote == IF direct /\ w.n >= 0 THEN w.n ELSE 0
        remaining == len - nwrote
        faultError == direct /\ w.n < 0 /\ w.err \in FaultErrnos
        wc == direct /\ w.n >= 0 /\ remaining = 0 /\ writeCompleteCallback_
        append == state_[c] # "kDisconnected" /\ ~faultError /\ remaining > 0
        hwm == append /\ HighWaterCrossed(oldLen, remaining) /\ highWaterMarkCallback_
        out == IF append THEN oldLen + remaining ELSE oldLen
        ev == IF append THEN events_[c] \cup kWriteEvent ELSE events_[c]
        tasks == IF wc THEN <<Task("writeComplete", c, "handler")>>
                 ELSE IF hwm
                 THEN <<ConnTask("highWaterMark", c, "handler", oldLen + remaining)>>
                 ELSE <<>>
    IN [out |-> out,
        ev |-> ev,
        update |-> append /\ ~IsWriting(events_[c]),
        tasks |-> tasks,
        rec |-> [OpRec("sendInLoop", c, tid) EXCEPT
                   !.len = len, !.direct = direct,
                   !.n = IF direct THEN w.n ELSE 0,
                   !.new = out, !.evNew = ev, !.wc = wc,
                   !.hwm = IF hwm THEN <<oldLen + remaining>> ELSE <<>>]]

\* the effects of sendInLoop on connection c of loop l, run on that loop's thread
ApplySend(c, l, o) ==
    /\ outLen' = [outLen EXCEPT ![c] = o.out]
    /\ SetPoller(IF o.update THEN UpdateChannel(PollerState, c, l, o.ev) ELSE PollerState)
    /\ pendingFunctors_' = IF o.tasks = <<>> THEN pendingFunctors_
                           ELSE QueuePush(pendingFunctors_, l, o.tasks[1])
    /\ wakeupFd' = IF o.tasks # <<>> /\ NeedWakeup(l, threadId_(l))
                   THEN WakeupWrite(wakeupFd, l)
                   ELSE wakeupFd

\* what inputBuffer_.readFd returns: n > 0, n = 0 or n < 0
ReadResults == {"pos", "zero", "neg"}

\* channel_'s read callback: TcpConnection::handleRead.  n > 0: messageCallback_,
\* in which the application does nothing or calls conn->send(), which on this
\* thread is sendInLoop if state_ == kConnected; n = 0: handleClose(); n < 0:
\* handleError()
ConnHandleRead(l) ==
    /\ loopPc[l] = "h_read"
    /\ CurChannel(l) \in Conns
    /\ LET c == CurChannel(l)
           rec == [OpRec("handleRead", c, threadId_(l)) EXCEPT
                     !.wcWaiting = WcWaiting(c, l)]
       IN \/ /\ HandleCloseBody(c, l)
             /\ lastOps' = <<ClosedRec([rec EXCEPT !.n = 0])>>
             /\ UNCHANGED <<outLen, sendsLeft>>
          \/ /\ lastOps' = <<[rec EXCEPT !.n = -1]>>
             /\ UNCHANGED <<closeEffects, outLen, sendsLeft>>
          \/ /\ lastOps' = <<[rec EXCEPT !.n = 1]>>
             /\ UNCHANGED <<closeEffects, outLen, sendsLeft>>
          \/ /\ sendsLeft > 0
             /\ state_[c] = "kConnected"
             /\ \E len \in 0..MaxLen :
                \E w \in SendWrites(c, len) :
                  LET o == SendInLoop(c, len, w, threadId_(l)) IN
                    /\ ApplySend(c, l, o)
                    /\ lastOps' = <<[rec EXCEPT !.n = 1], o.rec>>
             /\ sendsLeft' = sendsLeft - 1
             /\ UNCHANGED <<connections_, state_, closeRuns, cbLog>>
    /\ AfterHandler(l, 3)
    /\ UNCHANGED <<handlerFrame, writeShut>>

\* channel_'s write callback: TcpConnection::handleWrite.  If the channel is
\* writing, ::write the buffer; n > 0: retrieve(n) and, if the buffer is empty,
\* disableWriting(), queue writeCompleteCallback_ if set, and shutdownInLoop()
\* if state_ == kDisconnecting, which shuts the write half down as the channel
\* is no longer writing.  Otherwise log.
ConnHandleWrite(l) ==
    /\ loopPc[l] = "h_write"
    /\ CurChannel(l) \in Conns
    /\ LET c == CurChannel(l)
           rec == OpRec("handleWrite", c, threadId_(l))
       IN IF IsWriting(events_[c])
          THEN \E w \in WriteResults(outLen[c], writeShut[c]) :
                 LET rest == IF w.n > 0 THEN outLen[c] - w.n ELSE outLen[c]
                     emptied == w.n > 0 /\ BufferEmptied(rest)
                     ev == IF emptied THEN events_[c] \ kWriteEvent ELSE events_[c]
                     wc == emptied /\ writeCompleteCallback_
                     shut == emptied /\ state_[c] = "kDisconnecting"
                 IN /\ outLen' = [outLen EXCEPT ![c] = rest]
                    /\ SetPoller(IF emptied THEN UpdateChannel(PollerState, c, l, ev)
                                 ELSE PollerState)
                    /\ pendingFunctors_' =
                         IF wc THEN QueuePush(pendingFunctors_, l,
                                              Task("writeComplete", c, "handler"))
                         ELSE pendingFunctors_
                    /\ wakeupFd' = IF wc /\ NeedWakeup(l, threadId_(l))
                                   THEN WakeupWrite(wakeupFd, l)
                                   ELSE wakeupFd
                    /\ writeShut' = [writeShut EXCEPT ![c] = @ \/ shut]
                    /\ lastOps' = <<[rec EXCEPT !.n = w.n, !.new = rest, !.evNew = ev,
                                                !.wc = wc, !.shut = shut]>>
          ELSE /\ lastOps' = <<[rec EXCEPT !.n = -1]>>
               /\ UNCHANGED <<outLen, poller, pendingFunctors_, wakeupFd, writeShut>>
    /\ AfterHandler(l, 4)
    /\ UNCHANGED <<handlerFrame, connections_, state_, closeRuns, cbLog, sendsLeft>>

\* Acceptor::handleRead: accept() either yields a connected socket, handed to
\* TcpServer::newConnection, or fails (EMFILE, ECONNABORTED, ...), which is logged.
\* newConnection: getNextLoop, ++nextConnId_, new TcpConnection (kConnecting),
\* connections_[name] = conn, ioLoop->runInLoop(connectEstablished)
AcceptorHandleRead(l) ==
    /\ loopPc[l] = "h_read"
    /\ CurChannel(l) = AcceptCh
    /\ ~emfile
    /\ \E ok \in BOOLEAN :
         IF ok /\ backlog > 0
         THEN LET c == nextConnId_
                  ioLoop == GetNextLoop
              IN /\ backlog' = backlog - 1
                 /\ next_' = NextAfterGet
                 /\ nextConnId_' = nextConnId_ + 1
                 /\ connLoop' = [connLoop EXCEPT ![c] = ioLoop]
                 /\ connections_' = connections_ \cup {c}
                 /\ IF IsInLoopThread(ioLoop, threadId_(l))
                    THEN /\ ConnectEstablishedBody(c, ioLoop)
                         /\ UNCHANGED <<pendingFunctors_, wakeupFd>>
                    ELSE /\ state_' = [state_ EXCEPT ![c] = "kConnecting"]
                         /\ pendingFunctors_' =
                              QueuePush(pendingFunctors_, ioLoop,
                                        Task("connectEstablished", c, "handler"))
                         /\ wakeupFd' = IF NeedWakeup(ioLoop, threadId_(l))
                                        THEN WakeupWrite(wakeupFd, ioLoop)
                                        ELSE wakeupFd
                         /\ UNCHANGED <<tied_, poller, cbLog, published, estRuns>>
         ELSE UNCHANGED <<backlog, next_, nextConnId_, connLoop, connections_, state_,
                          tied_, poller, cbLog, published, estRuns, pendingFunctors_,
                          wakeupFd>>
    /\ AfterHandler(l, 3)
    /\ UNCHANGED <<looping_, quit_, callingPendingFunctors_, functors, activeChannels_,
                   revents_, started_, numThreads_, loops_, listening_, clientsLeft,
                   startsLeft, outLen, writeShut, sockBudget, connCfg, sendsLeft>>
    /\ UNCHANGED <<thrVars, eltVars, taskHist, quitHist, srvHist, destroyedRuns, closeRuns,
                   lastOps>>

\* Acceptor::handleRead when accept() fails with EMFILE: two LOG_ERRORs; the
\* connection stays in the listen queue and the listening socket stays readable
AcceptorHandleReadEmfile(l) ==
    /\ loopPc[l] = "h_read"
    /\ CurChannel(l) = AcceptCh
    /\ emfile
    /\ AfterHandler(l, 3)
    /\ UNCHANGED <<looping_, quit_, callingPendingFunctors_, pendingFunctors_, functors,
                   activeChannels_, wakeupFd>>
    /\ UNCHANGED <<chanVars, thrVars, eltVars, srvVars, connVars, histVars>>

\* the loop's step frame of a queued functor: everything but functors
runBase ==
    <<loopPc, looping_, quit_, callingPendingFunctors_, activeChannels_, activeIdx,
      revents_, thrVars, eltVars, started_, numThreads_, loops_, next_, nextConnId_,
      listening_, backlog, clientsLeft, startsLeft, connLoop, sockBudget, connCfg,
      sendsLeft, taskHist, quitHist, srvHist>>
runFrame == <<runBase, outLen>>

HeadIs(l, kind) ==
    /\ loopPc[l] = "run"
    /\ functors[l] # <<>>
    /\ Head(functors[l]).kind = kind

\* the queued functor std::bind(&TcpConnection::connectEstablished, conn)
RunConnectEstablished(l) ==
    /\ HeadIs(l, "connectEstablished")
    /\ functors' = [functors EXCEPT ![l] = Tail(@)]
    /\ ConnectEstablishedBody(Head(functors[l]).arg, l)
    /\ UNCHANGED <<pendingFunctors_, wakeupFd, connections_, writeShut, destroyedRuns,
                   closeRuns, lastOps>>
    /\ UNCHANGED runFrame

\* the queued functor std::bind(&TcpServer::removeConnectionInLoop, this, conn):
\* connections_.erase(name); ioLoop->queueInLoop(connectDestroyed)
RunRemoveConnectionInLoop(l) ==
    /\ HeadIs(l, "removeConnectionInLoop")
    /\ functors' = [functors EXCEPT ![l] = Tail(@)]
    /\ LET c == Head(functors[l]).arg IN
         /\ connections_' = connections_ \ {c}
         /\ pendingFunctors_' =
                QueuePush(pendingFunctors_, connLoop[c], Task("connectDestroyed", c, "pending"))
         /\ wakeupFd' = IF NeedWakeup(connLoop[c], threadId_(l))
                        THEN WakeupWrite(wakeupFd, connLoop[c])
                        ELSE wakeupFd
         /\ lastOps' = <<[NoOp EXCEPT !.op = "removeConnectionInLoop", !.conn = c,
                                      !.thread = threadId_(l), !.erase = TRUE]>>
    /\ UNCHANGED <<poller, state_, tied_, writeShut, published, connCounts>>
    /\ UNCHANGED runFrame

\* the queued functor std::bind(&TcpConnection::connectDestroyed, conn):
\* if (state_ == kConnected) { setState(kDisconnected); disableAll();
\* connectionCallback_ }; channel_->remove()
RunConnectDestroyed(l) ==
    /\ HeadIs(l, "connectDestroyed")
    /\ functors' = [functors EXCEPT ![l] = Tail(@)]
    /\ LET c == Head(functors[l]).arg IN
         /\ destroyedRuns' = [destroyedRuns EXCEPT ![c] = @ + 1]
         /\ IF state_[c] = "kConnected"
            THEN /\ state_' = [state_ EXCEPT ![c] = "kDisconnected"]
                 /\ SetPoller(RemoveChannel(UpdateChannel(PollerState, c, l, kNoneEvent),
                                            c, l))
                 /\ cbLog' = [cbLog EXCEPT
                                ![c] = Append(@, CbEntry("destroyed", "kDisconnected"))]
            ELSE /\ SetPoller(RemoveChannel(PollerState, c, l))
                 /\ UNCHANGED <<state_, cbLog>>
    /\ UNCHANGED <<pendingFunctors_, wakeupFd, connections_, tied_, writeShut, published,
                   estRuns, closeRuns, lastOps>>
    /\ UNCHANGED runFrame

\* the queued functor std::bind(&TcpConnection::shutdownInLoop, this):
\* if (!channel_->isWriting()) socket_->shutdownWrite()
RunShutdownInLoop(l) ==
    /\ HeadIs(l, "shutdownInLoop")
    /\ functors' = [functors EXCEPT ![l] = Tail(@)]
    /\ LET c == Head(functors[l]).arg
           shut == ~IsWriting(events_[c])
       IN /\ writeShut' = [writeShut EXCEPT ![c] = @ \/ shut]
          /\ lastOps' = <<[OpRec("shutdownInLoop", c, threadId_(l)) EXCEPT !.shut = shut]>>
    /\ UNCHANGED <<pendingFunctors_, wakeupFd, connections_, poller, state_, tied_,
                   published, estRuns, destroyedRuns, closeRuns, cbLog>>
    /\ UNCHANGED runFrame

\* the queued functor [this, buf]() { this->sendInLoop(buf); }
RunSendInLoop(l) ==
    /\ HeadIs(l, "sendInLoop")
    /\ functors' = [functors EXCEPT ![l] = Tail(@)]
    /\ LET c == Head(functors[l]).arg
           len == Head(functors[l]).len
       IN \E w \in SendWrites(c, len) :
            LET o == SendInLoop(c, len, w, threadId_(l)) IN
              /\ ApplySend(c, l, o)
              /\ lastOps' = <<o.rec>>
    /\ UNCHANGED <<connections_, state_, tied_, writeShut, published, estRuns,
                   destroyedRuns, closeRuns, cbLog>>
    /\ UNCHANGED runBase

\* the queued functors std::bind(writeCompleteCallback_, conn) and
\* std::bind(highWaterMarkCallback_, conn, len): the application's callback runs
RunUserCallback(l) ==
    /\ \/ HeadIs(l, "writeComplete")
       \/ HeadIs(l, "highWaterMark")
    /\ functors' = [functors EXCEPT ![l] = Tail(@)]
    /\ lastOps' = <<[OpRec(Head(functors[l]).kind, Head(functors[l]).arg, threadId_(l))
                       EXCEPT !.len = Head(functors[l]).len]>>
    /\ UNCHANGED <<pendingFunctors_, wakeupFd, connections_, poller, state_, tied_,
                   writeShut, published, estRuns, destroyedRuns, closeRuns, cbLog>>
    /\ UNCHANGED runFrame

\* TcpConnection::shutdown() on a foreign thread that holds a TcpConnectionPtr
\* (the application gets one in its connection callback): if (state_ == kConnected)
ForeignShutdown(t, c) ==
    /\ thrPc[t] = "idle"
    /\ published[c]
    /\ state_[c] = "kConnected"
    /\ thrPc' = [thrPc EXCEPT ![t] = "sd_set"]
    /\ thrConn' = [thrConn EXCEPT ![t] = c]
    /\ UNCHANGED <<thrLoop, thrLen>>
    /\ UNCHANGED <<loopVars, chanVars, eltVars, srvVars, connVars, histVars>>

\* shutdown(): setState(kDisconnecting)
ForeignShutdownSet(t) ==
    /\ thrPc[t] = "sd_set"
    /\ state_' = [state_ EXCEPT ![thrConn[t]] = "kDisconnecting"]
    /\ thrPc' = [thrPc EXCEPT ![t] = "sd_run"]
    /\ lastOps' = <<[OpRec("setState", thrConn[t], ForeignTid(t)) EXCEPT
                       !.stNew = "kDisconnecting"]>>
    /\ UNCHANGED <<thrLoop, thrCall, connLoop, tied_, outLen, writeShut, published,
                   sockBudget, connCfg, sendsLeft>>
    /\ UNCHANGED <<loopVars, chanVars, eltVars, srvVars, taskHist, quitHist, srvHist,
                   estRuns, destroyedRuns, closeRuns, cbLog>>

\* shutdown(): loop_->runInLoop(shutdownInLoop) is queueInLoop, whose first half
\* appends
ForeignShutdownRun(t) ==
    /\ thrPc[t] = "sd_run"
    /\ LET l == connLoop[thrConn[t]] IN
         /\ pendingFunctors_' =
                QueuePush(pendingFunctors_, l, Task("shutdownInLoop", thrConn[t], "foreign"))
         /\ thrLoop' = [thrLoop EXCEPT ![t] = l]
    /\ thrPc' = [thrPc EXCEPT ![t] = "qil_wake"]
    /\ UNCHANGED <<loopPc, looping_, quit_, callingPendingFunctors_, functors,
                   activeChannels_, activeIdx, wakeupFd, thrCall>>
    /\ UNCHANGED <<chanVars, eltVars, srvVars, connVars, histVars>>

\* TcpConnection::send(buf) on a foreign thread that holds a TcpConnectionPtr:
\* if (state_ == kConnected)
ForeignSend(t, c, len) ==
    /\ thrPc[t] = "idle"
    /\ published[c]
    /\ sendsLeft > 0
    /\ state_[c] = "kConnected"
    /\ thrPc' = [thrPc EXCEPT ![t] = "send_run"]
    /\ thrConn' = [thrConn EXCEPT ![t] = c]
    /\ thrLen' = [thrLen EXCEPT ![t] = len]
    /\ sendsLeft' = sendsLeft - 1
    /\ UNCHANGED thrLoop
    /\ UNCHANGED <<state_, connLoop, tied_, outLen, writeShut, published, sockBudget,
                   connCfg>>
    /\ UNCHANGED <<loopVars, chanVars, eltVars, srvVars, histVars>>

\* send(): loop_->runInLoop([this, buf]() { this->sendInLoop(buf); }) is
\* queueInLoop, whose first half appends
ForeignSendRun(t) ==
    /\ thrPc[t] = "send_run"
    /\ LET l == connLoop[thrConn[t]] IN
         /\ pendingFunctors_' =
                QueuePush(pendingFunctors_, l,
                          ConnTask("sendInLoop", thrConn[t], "foreign", thrLen[t]))
         /\ thrLoop' = [thrLoop EXCEPT ![t] = l]
    /\ thrPc' = [thrPc EXCEPT ![t] = "qil_wake"]
    /\ thrLen' = [thrLen EXCEPT ![t] = 0]
    /\ UNCHANGED <<loopPc, looping_, quit_, callingPendingFunctors_, functors,
                   activeChannels_, activeIdx, wakeupFd, thrConn>>
    /\ UNCHANGED <<chanVars, eltVars, srvVars, connVars, histVars>>

(***************************************************************************)
(* Buffer.  A buffer is the record of buffer_, readerIndex_ and            *)
(* writerIndex_; a member function is an operator from the buffer before   *)
(* the call to the buffer after it.  A char is 0 (value-initialized by     *)
(* std::vector) or one of ByteValues.                                      *)
(***************************************************************************)
kCheapPrepend == 8
ByteValues == {1, 2}

\* the arguments (data, len) of append and prepend
RECURSIVE Payloads(_)
Payloads(n) ==
    IF n = 0 THEN {<<>>}
    ELSE Payloads(n - 1) \cup {Append(d, v) : d \in {q \in Payloads(n - 1) : Len(q) = n - 1},
                                              v \in ByteValues}

BufferState == [buf |-> buffer_, r |-> readerIndex_, w |-> writerIndex_]
ReadableBytes(b) == b.w - b.r
WritableBytes(b) == Len(b.buf) - b.w
PrependableBytes(b) == b.r
\* the chars at [from, to)
Chars(buf, from, to) == SubSeq(buf, from + 1, to)
\* std::string(peek(), len)
Peek(b, len) == Chars(b.buf, b.r, b.r + len)

\* std::copy(begin() + first, begin() + last, begin() + d): one char at a time,
\* from first upwards
RECURSIVE Copy(_, _, _, _)
Copy(buf, first, last, d) ==
    IF first >= last THEN buf
    ELSE Copy([buf EXCEPT ![d + 1] = buf[first + 1]], first + 1, last, d + 1)

\* std::copy(data, data + len, begin() + at)
CopyIn(buf, data, at) ==
    [i \in 1..Len(buf) |-> IF at < i /\ i <= at + Len(data) THEN data[i - at] ELSE buf[i]]

\* buffer_.resize(n)
Resize(buf, n) == [i \in 1..n |-> IF i <= Len(buf) THEN buf[i] ELSE 0]

\* makeSpace's test: the free space before and after the readable chars is too small
NeedsGrowth_NoReserve(b, len) == WritableBytes(b) + PrependableBytes(b) < len
NeedsGrowth(b, len) == WritableBytes(b) + PrependableBytes(b) < len + kCheapPrepend

\* Buffer::makeSpace(len)
MakeSpace_NoCopy(b, len) ==
    IF NeedsGrowth(b, len)
    THEN [b EXCEPT !.buf = Resize(b.buf, b.w + len)]
    ELSE [b EXCEPT !.r = kCheapPrepend, !.w = kCheapPrepend + ReadableBytes(b)]
MakeSpace(b, len) ==
    IF NeedsGrowth(b, len)
    THEN [b EXCEPT !.buf = Resize(b.buf, b.w + len)]
    ELSE [buf |-> Copy(b.buf, b.r, b.w, kCheapPrepend),
          r   |-> kCheapPrepend,
          w   |-> kCheapPrepend + ReadableBytes(b)]

\* Buffer::ensureWritableBytes(len)
EnsureWritableBytes(b, len) == IF WritableBytes(b) < len THEN MakeSpace(b, len) ELSE b

\* Buffer::append(data, len)
BufferAppend(b, data) ==
    LET e == EnsureWritableBytes(b, Len(data)) IN
      [e EXCEPT !.buf = CopyIn(e.buf, data, e.w), !.w = e.w + Len(data)]

\* Buffer::prepend(data, len)
BufferPrepend(b, data) ==
    [b EXCEPT !.r = b.r - Len(data), !.buf = CopyIn(b.buf, data, b.r - Len(data))]

\* Buffer::retrieveAll()
RetrieveAll_ReaderOnly(b) == [b EXCEPT !.r = kCheapPrepend]
RetrieveAll(b) == [b EXCEPT !.r = kCheapPrepend, !.w = kCheapPrepend]

\* Buffer::retrieve(len)
Retrieve(b, len) ==
    IF len < ReadableBytes(b) THEN [b EXCEPT !.r = b.r + len] ELSE RetrieveAll(b)

\* EventLoopThreadPool::start is not followed thread by thread
InitNoPool ==
    /\ threadInitCallback_ = FALSE
    /\ poolPc = "idle"
    /\ poolI = 0
    /\ poolTf = [l \in Loops |-> "unstarted"]
    /\ poolLoop_ = [l \in Loops |-> NullLoop]
    /\ initCalls = <<>>

\* the byte-level connection is not followed
InitNoWire ==
    /\ wireState = "none"
    /\ wireEvents = kNoneEvent
    /\ wireShut = FALSE
    /\ wireQueue = <<>>
    /\ wirePc = [t \in Foreign |-> "idle"]
    /\ wireData = <<>>
    /\ wireSendsLeft = 0
    /\ sockPeer = "open"
    /\ sockSpace = 0
    /\ written = <<>>
    /\ payloads = <<>>

\* nobody holds a loop's mutex_ and no pool is being started
InitNoLock ==
    /\ mutex_ = [l \in Loops |-> NoThread]
    /\ InitNoPool

\* the application has called setConnectionCallback and setMessageCallback
InitUserCallbacks ==
    /\ connectionCallback_ = TRUE
    /\ messageCallback_ = TRUE

InitExt ==
    /\ InitNoLock
    /\ InitNoWire
    /\ InitUserCallbacks

\* the user channel is not tied
InitNoTie ==
    /\ InitExt
    /\ ioTied = FALSE
    /\ ownerRefs = 0
    /\ ownerDestroyed = FALSE

\* Buffer::Buffer(InitialSize)
InitBuffer ==
    /\ buffer_ = [i \in 1..(kCheapPrepend + InitialSize) |-> 0]
    /\ readerIndex_ = kCheapPrepend
    /\ writerIndex_ = kCheapPrepend
    /\ prependsLeft = 0
    /\ fifo = <<>>
    /\ lastCall = [op |-> "none"]

SetBuffer(b) ==
    /\ buffer_' = b.buf
    /\ readerIndex_' = b.r
    /\ writerIndex_' = b.w

\* what a call of a Buffer member leaves alone
bufferFrameBase ==
    <<loopVars, chanVars, thrVars, eltVars, srvVars, state_, connLoop, tied_, outLen,
      writeShut, published, sockBudget, writeCompleteCallback_, highWaterMarkCallback_,
      sendsLeft, histVars>>
bufferFrame == <<bufferFrameBase, procVars, tieVars, extVars>>

\* the record of a call that may call makeSpace(len) on buffer b
SpaceRec(op, b, len) ==
    LET e == EnsureWritableBytes(b, len) IN
      [op |-> op, len |-> len, ret |-> <<>>,
       madeSpace |-> WritableBytes(b) < len,
       grew |-> WritableBytes(b) < len /\ NeedsGrowth(b, len),
       writable |-> WritableBytes(e),
       before |-> Peek(b, ReadableBytes(b)),
       after |-> Peek(e, ReadableBytes(e))]

\* the record of a call that makes no space
CallRec(op, len, ret) ==
    [op |-> op, len |-> len, ret |-> ret, madeSpace |-> FALSE, grew |-> FALSE,
     writable |-> 0, before |-> <<>>, after |-> <<>>]

\* append(data, len)
CallAppend(data) ==
    /\ writerIndex_ + Len(data) <= MaxBufferSize
    /\ SetBuffer(BufferAppend(BufferState, data))
    /\ fifo' = fifo \o data
    /\ lastCall' = SpaceRec("append", BufferState, Len(data))
    /\ UNCHANGED <<prependsLeft, bufferFrame>>

\* prepend(data, len); the caller keeps len <= prependableBytes()
CallPrepend(data) ==
    /\ prependsLeft > 0
    /\ Len(data) <= PrependableBytes(BufferState)
    /\ SetBuffer(BufferPrepend(BufferState, data))
    /\ prependsLeft' = prependsLeft - 1
    /\ fifo' = data \o fifo
    /\ lastCall' = CallRec("prepend", Len(data), <<>>)
    /\ UNCHANGED bufferFrame

\* retrieve(len); the caller keeps len <= readableBytes()
CallRetrieve(len) ==
    /\ len <= ReadableBytes(BufferState)
    /\ SetBuffer(Retrieve(BufferState, len))
    /\ fifo' = SubSeq(fifo, len + 1, Len(fifo))
    /\ lastCall' = CallRec("retrieve", len, <<>>)
    /\ UNCHANGED <<prependsLeft, bufferFrame>>

\* retrieveAll()
CallRetrieveAll ==
    /\ SetBuffer(RetrieveAll(BufferState))
    /\ fifo' = <<>>
    /\ lastCall' = CallRec("retrieveAll", 0, <<>>)
    /\ UNCHANGED <<prependsLeft, bufferFrame>>

\* retrieveAsString(len); the caller keeps len <= readableBytes()
CallRetrieveAsString(len) ==
    /\ len <= ReadableBytes(BufferState)
    /\ SetBuffer(Retrieve(BufferState, len))
    /\ fifo' = SubSeq(fifo, len + 1, Len(fifo))
    /\ lastCall' = [CallRec("retrieveAsString", len, Peek(BufferState, len))
                      EXCEPT !.before = SubSeq(fifo, 1, len)]
    /\ UNCHANGED <<prependsLeft, bufferFrame>>

\* retrieveAllAsString(), that is retrieveAsString(readableBytes())
CallRetrieveAllAsString ==
    /\ SetBuffer(Retrieve(BufferState, ReadableBytes(BufferState)))
    /\ fifo' = <<>>
    /\ lastCall' = [CallRec("retrieveAllAsString", ReadableBytes(BufferState),
                             Peek(BufferState, ReadableBytes(BufferState)))
                      EXCEPT !.before = fifo]
    /\ UNCHANGED <<prependsLeft, bufferFrame>>

\* ensureWritableBytes(len)
CallEnsureWritableBytes(len) ==
    /\ writerIndex_ + len <= MaxBufferSize
    /\ SetBuffer(EnsureWritableBytes(BufferState, len))
    /\ lastCall' = SpaceRec("ensureWritableBytes", BufferState, len)
    /\ UNCHANGED <<prependsLeft, fifo, bufferFrame>>

(***************************************************************************)
(* The state after construction.  InitBase: one EventLoop (the base loop)  *)
(* constructed on thread 0, nothing else running.                          *)
(***************************************************************************)
InitLoopVars ==
    /\ loopPc = [l \in Loops |-> IF l = 0 THEN "init" ELSE "none"]
    /\ looping_ = [l \in Loops |-> FALSE]
    /\ quit_ = [l \in Loops |-> FALSE]
    /\ callingPendingFunctors_ = [l \in Loops |-> FALSE]
    /\ pendingFunctors_ = [l \in Loops |-> <<>>]
    /\ functors = [l \in Loops |-> <<>>]
    /\ activeChannels_ = [l \in Loops |-> <<>>]
    /\ activeIdx = [l \in Loops |-> 1]
    /\ wakeupFd = [l \in Loops |-> 0]

\* EventLoop::EventLoop enables reading on the wakeup channel; chans are the
\* other channels registered on the base loop
InitChanVars(chans) ==
    LET reg == {WakeupCh(0)} \cup chans IN
    /\ events_ = [ch \in Channels |-> IF ch \in reg THEN kReadEvent ELSE kNoneEvent]
    /\ revents_ = [ch \in Channels |-> {}]
    /\ index_ = [ch \in Channels |-> IF ch \in reg THEN kAdded ELSE kNew]
    /\ channels_ = [l \in Loops |-> IF l = 0 THEN reg ELSE {}]
    /\ epollSet = [l \in Loops |-> IF l = 0 THEN reg ELSE {}]

InitThrVars ==
    /\ thrPc = [t \in Foreign |-> "idle"]
    /\ thrLoop = [t \in Foreign |-> 0]
    /\ thrConn = [t \in Foreign |-> 0]
    /\ thrLen = [t \in Foreign |-> 0]

InitEltVars ==
    /\ eltLoop_ = NullLoop
    /\ exiting_ = FALSE
    /\ tfPc = "unstarted"

InitSrvBase(threads, clients, starts) ==
    /\ started_ = 0
    /\ numThreads_ \in threads
    /\ loops_ = <<>>
    /\ next_ = 0
    /\ nextConnId_ = 1
    /\ connections_ = {}
    /\ listening_ = FALSE
    /\ backlog = 0
    /\ clientsLeft = clients
    /\ startsLeft = starts
    /\ emfile = FALSE
    /\ pollEnv = NoEnv
    /\ crashed = FALSE

InitSrvVars(threads, clients, starts) ==
    /\ InitSrvBase(threads, clients, starts)
    /\ InitNoTie

InitConnVars(budget) ==
    /\ state_ = [c \in Conns |-> "none"]
    /\ connLoop = [c \in Conns |-> 0]
    /\ tied_ = [c \in Conns |-> FALSE]
    /\ outLen = [c \in Conns |-> 0]
    /\ writeShut = [c \in Conns |-> FALSE]
    /\ published = [c \in Conns |-> FALSE]
    /\ sockBudget = budget

\* no application sends: whether the callbacks are set makes no difference
InitNoSend ==
    /\ writeCompleteCallback_ = FALSE
    /\ highWaterMarkCallback_ = FALSE
    /\ sendsLeft = 0
    /\ InitBuffer

InitHist(quits) ==
    /\ nextTask = 1
    /\ appended = [l \in Loops |-> <<>>]
    /\ executed = <<>>
    /\ quitsLeft = quits
    /\ quitPcs = [l \in Loops |-> {}]
    /\ poolStarts = 0
    /\ listenCalls = 0
    /\ estRuns = [c \in Conns |-> 0]
    /\ destroyedRuns = [c \in Conns |-> 0]
    /\ closeRuns = [c \in Conns |-> 0]
    /\ cbLog = [c \in Conns |-> <<>>]
    /\ lastOps = <<>>

(***************************************************************************)
(* Spec: one EventLoop with a user channel, its owner thread and foreign   *)
(* threads that post tasks and call quit().                                *)
(***************************************************************************)
Init ==
    /\ InitLoopVars
    /\ InitChanVars({IoCh})
    /\ InitThrVars
    /\ InitEltVars
    /\ InitSrvVars({0}, 0, 0)
    /\ InitConnVars(0)
    /\ InitNoSend
    /\ InitHist(MaxQuits)

OwnerNext(l) ==
    \/ LoopStep(l)
    \/ RunUserTask(l)
    \/ IoHandleRead(l)

Next ==
    \/ OwnerNext(0)
    \/ PollTimeout(0)
    \/ OwnerQueueBeforeLoop(0)
    \/ \E t \in Foreign :
         \/ ForeignQueueInLoop(t, 0)
         \/ ForeignRunInLoop(t, 0)
         \/ ForeignQueueWakeup(t)
         \/ ForeignQuit(t, 0)
         \/ ForeignQuitWakeup(t)

Spec == Init /\ [][Next]_vars

(***************************************************************************)
(* FairSpec: Spec with the scheduling the threads rely on.  Every thread   *)
(* that can take a step eventually does, and epoll_wait returns when a     *)
(* registered descriptor is ready.  Nothing obliges the peer or the user   *)
(* channel to become ready, and no poll timeout is assumed to expire.      *)
(***************************************************************************)
OwnerProgress(l) ==
    IF loopPc[l] = "poll"
    THEN ForcedReady(l) # {} /\ Poll(l)
    ELSE OwnerNext(l)

ForeignProgress(t) == ForeignQueueWakeup(t) \/ ForeignQuitWakeup(t)

FairSpec ==
    /\ Spec
    /\ WF_vars(OwnerProgress(0))
    /\ \A t \in Foreign : WF_vars(ForeignProgress(t))

\* epoll_wait returns 0 once kPollTimeMs have passed with nothing ready
TimeoutStep(l) ==
    /\ ForcedReady(l) = {}
    /\ PollTimeout(l)

(***************************************************************************)
(* FairSpecTimeout: FairSpec, and a poll with nothing ready times out.     *)
(***************************************************************************)
FairSpecTimeout ==
    /\ FairSpec
    /\ WF_vars(TimeoutStep(0))

(***************************************************************************)
(* SpecQuit: Spec, and the application code run by the loop may call       *)
(* quit() on its own loop: quit_ = true, and no wakeup() because           *)
(* isInLoopThread() holds.                                                 *)
(***************************************************************************)
\* quit(), called on the owner thread of loop l
OwnerQuit(l) ==
    /\ quitsLeft > 0
    /\ quitsLeft' = quitsLeft - 1
    /\ quit_' = [quit_ EXCEPT ![l] = TRUE]
    /\ quitPcs' = [quitPcs EXCEPT ![l] = @ \cup QuitPlace(loopPc[l])]
    /\ wakeupFd' = IF QuitNeedsWakeup(l, threadId_(l)) THEN WakeupWrite(wakeupFd, l)
                   ELSE wakeupFd

\* the read callback of the user channel calls loop->quit() and returns
IoHandleReadQuit(l) ==
    /\ loopPc[l] = "h_read"
    /\ CurChannel(l) = IoCh
    /\ OwnerQuit(l)
    /\ AfterHandler(l, 3)
    /\ UNCHANGED <<looping_, callingPendingFunctors_, pendingFunctors_, functors,
                   activeChannels_>>
    /\ UNCHANGED <<chanVars, thrVars, eltVars, srvVars, connVars>>
    /\ UNCHANGED <<taskHist, srvHist, connHist>>

\* a user closure of the batch calls loop->quit() and returns
RunUserTaskQuit(l) ==
    /\ loopPc[l] = "run"
    /\ functors[l] # <<>>
    /\ Head(functors[l]).kind = "user"
    /\ functors' = [functors EXCEPT ![l] = Tail(@)]
    /\ executed' = Append(executed, <<Head(functors[l]).arg, threadId_(l)>>)
    /\ OwnerQuit(l)
    /\ UNCHANGED <<loopPc, looping_, callingPendingFunctors_, pendingFunctors_,
                   activeChannels_, activeIdx>>
    /\ UNCHANGED <<chanVars, thrVars, eltVars, srvVars, connVars>>
    /\ UNCHANGED <<nextTask, appended, srvHist, connHist>>

OwnerNextQuit(l) ==
    \/ OwnerNext(l)
    \/ IoHandleReadQuit(l)
    \/ RunUserTaskQuit(l)

NextQuit ==
    \/ Next
    \/ IoHandleReadQuit(0)
    \/ RunUserTaskQuit(0)

SpecQuit == Init /\ [][NextQuit]_vars

\* the owner thread does not stop in the middle of loop(), and epoll_wait
\* returns when a registered descriptor is ready
OwnerProgressQuit(l) ==
    IF loopPc[l] = "poll"
    THEN ForcedReady(l) # {} /\ Poll(l)
    ELSE OwnerNextQuit(l)

FairSpecQuit ==
    /\ SpecQuit
    /\ WF_vars(OwnerProgressQuit(0))
    /\ \A t \in Foreign : WF_vars(ForeignProgress(t))

(***************************************************************************)
(* SpecMutex: the task queue with EventLoop::mutex_ spelled out.  Each     *)
(* block that holds a unique_lock is two steps: the lock, which waits      *)
(* until nobody holds mutex_, and the rest of the block with the unlock at *)
(* its closing brace.  A queueInLoop made by a task or a handler on the    *)
(* loop's own thread is one step that waits for mutex_ likewise.           *)
(***************************************************************************)
MutexFree(l) == mutex_[l] = NoThread

mutexFrame ==
    <<chanVars, eltVars, srvVars, state_, connLoop, tied_, outLen, writeShut, published,
      sockBudget, writeCompleteCallback_, highWaterMarkCallback_, sendsLeft, bufVars,
      procVars, tieVars, poolVars, wireVars, userCbVars, quitHist, srvHist, connHist>>

\* doPendingFunctors: std::unique_lock<std::mutex> lock(mutex_);
SwapLock(l) ==
    /\ loopPc[l] = "swap"
    /\ MutexFree(l)
    /\ mutex_' = [mutex_ EXCEPT ![l] = threadId_(l)]
    /\ UNCHANGED <<loopVars, thrVars, taskHist, mutexFrame>>

\* doPendingFunctors: functors.swap(pendingFunctors_); }
SwapUnlock(l) ==
    /\ loopPc[l] = "swap"
    /\ mutex_[l] = threadId_(l)
    /\ functors' = [functors EXCEPT ![l] = pendingFunctors_[l]]
    /\ pendingFunctors_' = [pendingFunctors_ EXCEPT ![l] = PendingAfterSwap(@)]
    /\ loopPc' = [loopPc EXCEPT ![l] = "run"]
    /\ mutex_' = MutexAfterBlock(mutex_, l)
    /\ UNCHANGED <<looping_, quit_, callingPendingFunctors_, activeChannels_,
                   activeIdx, wakeupFd, thrVars, taskHist, mutexFrame>>

\* queueInLoop on a foreign thread: std::unique_lock<std::mutex> lock(mutex_);
ProducerLock(t, l) ==
    /\ thrPc[t] = "idle"
    /\ Constructed(l)
    /\ nextTask <= MaxTasks
    /\ MutexFree(l)
    /\ mutex_' = [mutex_ EXCEPT ![l] = ForeignTid(t)]
    /\ thrPc' = [thrPc EXCEPT ![t] = "qil_locked"]
    /\ thrLoop' = [thrLoop EXCEPT ![t] = l]
    /\ UNCHANGED <<loopVars, thrCall, taskHist, mutexFrame>>

\* queueInLoop on a foreign thread: pendingFunctors_.emplace_back(std::move(cb)); }
ProducerAppend(t) ==
    /\ thrPc[t] = "qil_locked"
    /\ nextTask <= MaxTasks
    /\ pendingFunctors_' =
          QueuePush(pendingFunctors_, thrLoop[t], Task("user", nextTask, "foreign"))
    /\ appended' = [appended EXCEPT ![thrLoop[t]] = Append(@, nextTask)]
    /\ nextTask' = nextTask + 1
    /\ mutex_' = MutexAfterBlock(mutex_, thrLoop[t])
    /\ thrPc' = [thrPc EXCEPT ![t] = "qil_wake"]
    /\ UNCHANGED <<loopPc, looping_, quit_, callingPendingFunctors_, functors,
                   activeChannels_, activeIdx, wakeupFd, thrLoop, thrCall, executed,
                   mutexFrame>>

\* a step of the owner that appends to pendingFunctors_ takes mutex_ for it
AppendWaits(l) == pendingFunctors_'[l] # pendingFunctors_[l] => MutexFree(l)

MutexOwnerNext(l) ==
    \/ LoopEnter(l)
    \/ LoopReset(l)
    \/ LoopTest(l)
    \/ Poll(l)
    \/ DispatchNext(l)
    \/ WakeupHandleRead(l)
    \/ DoPendingBegin(l)
    \/ SwapLock(l)
    \/ SwapUnlock(l)
    \/ DoPendingEnd(l)
    \/ RunUserTask(l) /\ AppendWaits(l)
    \/ IoHandleRead(l) /\ AppendWaits(l)

NextMutex ==
    \/ MutexOwnerNext(0)
    \/ PollTimeout(0)
    \/ \E t \in Foreign :
         \/ ProducerLock(t, 0)
         \/ ProducerAppend(t)
         \/ ForeignQueueWakeup(t)

SpecMutex == Init /\ [][NextMutex]_vars

(***************************************************************************)
(* SpecThread: one EventLoopThread.  Foreign thread EltOwner calls         *)
(* startLoop() and later destroys the object; the other foreign threads    *)
(* post tasks to the loop while EltOwner holds it.                         *)
(***************************************************************************)
InitThread ==
    /\ InitLoopVars
    /\ InitChanVars({})
    /\ InitThrVars
    /\ InitEltVars
    /\ InitSrvVars({0}, 0, 0)
    /\ InitConnVars(0)
    /\ InitNoSend
    /\ InitHist(0)

SpawnedNext ==
    \/ ThreadFuncConstruct
    \/ ThreadFuncPublish
    \/ ThreadFuncExit
    \/ tfPc = "loop" /\ LoopStep(EltLoop)
    \/ tfPc = "loop" /\ RunUserTask(EltLoop)

EltOwnerNext(t) ==
    \/ EltStartLoop(t)
    \/ EltStartLoopReturn(t)
    \/ EltDestructorBegin(t)
    \/ EltDestructorQuit(t)
    \/ EltDestructorWakeup(t)
    \/ EltDestructorJoin(t)

NextThread ==
    \/ SpawnedNext
    \/ tfPc = "loop" /\ PollTimeout(EltLoop)
    \/ EltOwnerNext(EltOwner)
    \/ \E t \in Foreign \ {EltOwner} :
         thrPc[EltOwner] = "has_loop" /\ ForeignQueueInLoop(t, EltLoop)
    \/ \E t \in Foreign : ForeignQueueWakeup(t)

SpecThread == InitThread /\ [][NextThread]_vars

\* the spawned thread runs; epoll_wait returns when the eventfd is readable and
\* times out when nothing is ready
SpawnedProgress ==
    \/ IF loopPc[EltLoop] = "poll"
       THEN ForcedReady(EltLoop) # {} /\ Poll(EltLoop)
       ELSE SpawnedNext
    \/ /\ tfPc = "loop"
       /\ TimeoutStep(EltLoop)

\* a thread inside startLoop(), the destructor or queueInLoop goes on
EltOwnerProgress(t) ==
    \/ EltStartLoopReturn(t)
    \/ EltDestructorQuit(t)
    \/ EltDestructorWakeup(t)
    \/ EltDestructorJoin(t)
    \/ ForeignQueueWakeup(t)

FairSpecThread ==
    /\ SpecThread
    /\ WF_vars(SpawnedProgress)
    /\ \A t \in Foreign : WF_vars(EltOwnerProgress(t))

(***************************************************************************)
(* SpecPool: a TcpServer on the base loop with numThreads_ subordinate     *)
(* loops.  start() is called by the base loop's thread before loop() and   *)
(* by foreign threads; clients connect and the acceptor hands each         *)
(* connection to the loop getNextLoop picks.  The subordinate threads are  *)
(* not scheduled here: nothing they do is read by start(), the acceptor    *)
(* or getNextLoop.  No connected socket becomes ready.                     *)
(***************************************************************************)
InitPool ==
    /\ InitLoopVars
    /\ InitChanVars({})
    /\ InitThrVars
    /\ InitEltVars
    /\ InitSrvVars(0..MaxThreads, MaxConns, MaxStarts)
    /\ InitConnVars(0)
    /\ InitNoSend
    /\ InitHist(0)

NextPool ==
    \/ LoopStep(0)
    \/ PollTimeout(0)
    \/ MainStart
    \/ MainStartPool
    \/ RunListen(0)
    \/ AcceptorHandleRead(0)
    \/ ClientConnect
    \/ \E t \in Foreign :
         \/ ForeignStart(t)
         \/ ForeignStartPool(t)
         \/ ForeignQueueWakeup(t)

SpecPool == InitPool /\ [][NextPool]_vars

(***************************************************************************)
(* SpecInit: EventLoopThreadPool::start(cb) followed thread by thread, on  *)
(* the base loop's thread before it calls loop().  The for loop creates    *)
(* one EventLoopThread after the other and calls its startLoop(), which    *)
(* spawns the thread and waits for loop_; each spawned thread runs         *)
(* threadFunc: EventLoop loop; if (callback_) callback_(&loop); publish;   *)
(* loop.loop().  The loops only poll and time out.                         *)
(***************************************************************************)
InitInit ==
    /\ InitLoopVars
    /\ InitChanVars({})
    /\ InitThrVars
    /\ InitEltVars
    /\ started_ = 0
    /\ numThreads_ \in 0..MaxThreads
    /\ loops_ = <<>>
    /\ next_ = 0
    /\ nextConnId_ = 1
    /\ connections_ = {}
    /\ listening_ = FALSE
    /\ backlog = 0
    /\ clientsLeft = 0
    /\ startsLeft = 0
    /\ emfile = FALSE
    /\ pollEnv = NoEnv
    /\ crashed = FALSE
    /\ mutex_ = [l \in Loops |-> NoThread]
    /\ threadInitCallback_ \in BOOLEAN
    /\ poolPc = "for"
    /\ poolI = 0
    /\ poolTf = [l \in Loops |-> "unstarted"]
    /\ poolLoop_ = [l \in Loops |-> NullLoop]
    /\ initCalls = <<>>
    /\ ioTied = FALSE
    /\ ownerRefs = 0
    /\ ownerDestroyed = FALSE
    /\ InitNoWire
    /\ InitUserCallbacks
    /\ InitConnVars(0)
    /\ InitNoSend
    /\ InitHist(0)

\* what no step of EventLoopThreadPool::start and threadFunc changes
initFrame ==
    <<looping_, quit_, callingPendingFunctors_, pendingFunctors_, functors,
      activeChannels_, activeIdx, wakeupFd, revents_, thrVars, eltVars, started_,
      numThreads_, next_, nextConnId_, connections_, listening_, backlog, clientsLeft,
      startsLeft, state_, connLoop, tied_, outLen, writeShut, published, sockBudget,
      writeCompleteCallback_, highWaterMarkCallback_, sendsLeft, bufVars, procVars,
      tieVars, lockVars, wireVars, userCbVars, threadInitCallback_, histVars>>

\* one invocation of cb(loop) on thread tid: whether the loop's pointer has been
\* published by then and where the loop is
InitCall(l, tid) ==
    [loop |-> l, thread |-> tid, published |-> poolLoop_[l] # NullLoop, pc |-> loopPc[l]]

\* start(): new EventLoopThread(cb, buf); t->startLoop(): thread_.start()
PoolSpawn ==
    /\ poolPc = "for"
    /\ poolI < numThreads_
    /\ poolTf' = [poolTf EXCEPT ![poolI + 1] = "construct"]
    /\ poolPc' = "startLoop"
    /\ UNCHANGED <<loopPc, poller, loops_, poolI, poolLoop_, initCalls, initFrame>>

\* threadFunc(): EventLoop loop;
PoolThreadConstruct(l) ==
    /\ poolTf[l] = "construct"
    /\ loopPc' = [loopPc EXCEPT ![l] = "init"]
    /\ events_' = ConstructLoops(PollerState, {l}).ev
    /\ index_' = ConstructLoops(PollerState, {l}).idx
    /\ channels_' = ConstructLoops(PollerState, {l}).chs
    /\ epollSet' = ConstructLoops(PollerState, {l}).ep
    /\ poolTf' = [poolTf EXCEPT ![l] = "callback"]
    /\ UNCHANGED <<loops_, poolPc, poolI, poolLoop_, initCalls, initFrame>>

\* threadFunc(): if (callback_) callback_(&loop);
PoolThreadCallback(l) ==
    /\ poolTf[l] = "callback"
    /\ initCalls' = IF threadInitCallback_ THEN Append(initCalls, InitCall(l, threadId_(l)))
                    ELSE initCalls
    /\ poolTf' = [poolTf EXCEPT ![l] = "publish"]
    /\ UNCHANGED <<loopPc, poller, loops_, poolPc, poolI, poolLoop_, initFrame>>

\* threadFunc(): { lock; loop_ = &loop; cond_.notify_one(); }, then loop.loop()
PoolThreadPublish(l) ==
    /\ poolTf[l] = "publish"
    /\ poolLoop_' = [poolLoop_ EXCEPT ![l] = l]
    /\ poolTf' = [poolTf EXCEPT ![l] = "loop"]
    /\ UNCHANGED <<loopPc, poller, loops_, poolPc, poolI, initCalls, initFrame>>

\* startLoop(): while (loop_ == nullptr) cond_.wait(lock); return loop_; and
\* loops_.push_back of what it returned
PoolStartLoopReturn ==
    /\ poolPc = "startLoop"
    /\ poolLoop_[poolI + 1] # NullLoop
    /\ loops_' = Append(loops_, poolLoop_[poolI + 1])
    /\ poolI' = poolI + 1
    /\ poolPc' = "for"
    /\ UNCHANGED <<loopPc, poller, poolTf, poolLoop_, initCalls, initFrame>>

\* start(), after the for loop: if (numThreads_ == 0 && cb) cb(baseLoop_);
PoolStartEnd ==
    /\ poolPc = "for"
    /\ poolI >= numThreads_
    /\ initCalls' = IF BaseLoopCallback(numThreads_, threadInitCallback_)
                    THEN Append(initCalls, InitCall(0, threadId_(0)))
                    ELSE initCalls
    /\ poolPc' = "done"
    /\ UNCHANGED <<loopPc, poller, loops_, poolI, poolTf, poolLoop_, initFrame>>

\* the loop of a thread that has entered loop.loop(), and the base loop once
\* start() has returned
InitLoopRuns(l) ==
    /\ IF l = 0 THEN poolPc = "done" ELSE poolTf[l] = "loop"
    /\ LoopStep(l) \/ PollTimeout(l)

NextInit ==
    \/ PoolSpawn
    \/ PoolStartLoopReturn
    \/ PoolStartEnd
    \/ \E l \in Loops \ {0} :
         \/ PoolThreadConstruct(l)
         \/ PoolThreadCallback(l)
         \/ PoolThreadPublish(l)
    \/ \E l \in Loops : InitLoopRuns(l)

SpecInit == InitInit /\ [][NextInit]_vars

(***************************************************************************)
(* SpecConn: the life cycle of a connection.  The base loop's thread       *)
(* starts the server with no or one subordinate loop; every loop runs;     *)
(* clients connect; the kernel reports any events on a connected socket    *)
(* and read() returns data, end of file or an error; foreign threads call  *)
(* shutdown() on connections the application has been handed.              *)
(***************************************************************************)
InitConn ==
    /\ InitLoopVars
    /\ InitChanVars({})
    /\ InitThrVars
    /\ InitEltVars
    /\ InitSrvVars({0, 1}, MaxClients, 1)
    /\ InitConnVars(MaxReports)
    /\ InitNoSend
    /\ InitHist(0)

ShutdownCallers == Foreign \cap (1..MaxShutdownThreads)

ConnOwnerNext(l) ==
    \/ LoopStep(l)
    \/ PollTimeout(l)
    \/ ConnHandleClose(l)
    \/ ConnHandleError(l)
    \/ ConnHandleRead(l)
    \/ RunConnectEstablished(l)
    \/ RunRemoveConnectionInLoop(l)
    \/ RunConnectDestroyed(l)
    \/ RunShutdownInLoop(l)

NextConn ==
    \/ MainStart
    \/ MainStartPool
    \/ ClientConnect
    \/ AcceptorHandleRead(0)
    \/ \E l \in Loops : ConnOwnerNext(l)
    \/ \E t \in ShutdownCallers :
         \/ \E c \in Conns : ForeignShutdown(t, c)
         \/ ForeignShutdownSet(t)
         \/ ForeignShutdownRun(t)
         \/ ForeignQueueWakeup(t)

SpecConn == InitConn /\ [][NextConn]_vars

(***************************************************************************)
(* SpecSend: sending on a connection.  A server without subordinate loops  *)
(* (every connection lives on the base loop) accepts one client; the       *)
(* application has set a write-complete callback and sets a high-water-    *)
(* mark callback on the connection; it calls send() from its message       *)
(* callback and from a foreign thread.  removeConnection runs on the base  *)
(* loop's thread, so removeConnectionInLoop is never queued.               *)
(***************************************************************************)
InitOneClient(callbacks, sends) ==
    /\ InitLoopVars
    /\ InitChanVars({})
    /\ InitThrVars
    /\ InitEltVars
    /\ InitSrvVars({0}, 1, 1)
    /\ InitConnVars(MaxReports)
    /\ writeCompleteCallback_ = callbacks
    /\ highWaterMarkCallback_ = callbacks
    /\ sendsLeft = sends
    /\ InitBuffer
    /\ InitHist(0)

InitSend == InitOneClient(TRUE, MaxSends)

SendOwnerNext(l) ==
    \/ LoopStep(l)
    \/ PollTimeout(l)
    \/ ConnHandleClose(l)
    \/ ConnHandleError(l)
    \/ ConnHandleRead(l)
    \/ ConnHandleWrite(l)
    \/ RunConnectDestroyed(l)
    \/ RunSendInLoop(l)

ServerNext ==
    \/ MainStart
    \/ MainStartPool
    \/ ClientConnect
    \/ AcceptorHandleRead(0)

ForeignSendNext(t) ==
    \/ \E c \in Conns : \E len \in 0..MaxLen : ForeignSend(t, c, len)
    \/ ForeignSendRun(t)
    \/ ForeignQueueWakeup(t)

NextSend ==
    \/ ServerNext
    \/ SendOwnerNext(0)
    \/ RunUserCallback(0)
    \/ \E t \in ShutdownCallers : ForeignSendNext(t)

SpecSend == InitSend /\ [][NextSend]_vars

(***************************************************************************)
(* SpecHalfClose: SpecSend's server and client, no callback set beyond the *)
(* connection and message callbacks; the foreign thread calls send() and   *)
(* shutdown().                                                             *)
(***************************************************************************)
InitHalfClose == InitOneClient(FALSE, MaxSendsBeforeClose)

NextHalfClose ==
    \/ ServerNext
    \/ SendOwnerNext(0)
    \/ RunShutdownInLoop(0)
    \/ \E t \in ShutdownCallers :
         \/ ForeignSendNext(t)
         \/ \E c \in Conns : ForeignShutdown(t, c)
         \/ ForeignShutdownSet(t)
         \/ ForeignShutdownRun(t)

SpecHalfClose == InitHalfClose /\ [][NextHalfClose]_vars

(***************************************************************************)
(* SpecSendShut: SpecHalfClose with two foreign threads: one calls send(), *)
(* the other calls shutdown() on the same connection.                      *)
(***************************************************************************)
Sender == 1
Closer == 2

NextSendShut ==
    \/ ServerNext
    \/ SendOwnerNext(0)
    \/ RunShutdownInLoop(0)
    \/ ForeignSendNext(Sender)
    \/ \E c \in Conns : ForeignShutdown(Closer, c)
    \/ ForeignShutdownSet(Closer)
    \/ ForeignShutdownRun(Closer)
    \/ ForeignQueueWakeup(Closer)

SpecSendShut == InitHalfClose /\ [][NextSendShut]_vars

(***************************************************************************)
(* SpecRegistry: SpecConn without calls of shutdown().  FairSpecRegistry   *)
(* adds the scheduling the threads rely on: a loop thread that can take a  *)
(* step eventually does, and epoll_wait returns when the wakeup descriptor *)
(* or the listening socket is ready.                                       *)
(***************************************************************************)
RegistryOwnerNext(l) ==
    \/ LoopStep(l)
    \/ PollTimeout(l)
    \/ ConnHandleClose(l)
    \/ ConnHandleError(l)
    \/ ConnHandleRead(l)
    \/ RunConnectEstablished(l)
    \/ RunRemoveConnectionInLoop(l)
    \/ RunConnectDestroyed(l)

NextRegistry ==
    \/ ServerNext
    \/ \E l \in Loops : RegistryOwnerNext(l)

SpecRegistry == InitConn /\ [][NextRegistry]_vars

RegistryProgress(l) ==
    IF loopPc[l] = "poll"
    THEN ForcedReady(l) # {} /\ Poll(l)
    ELSE RegistryOwnerNext(l)
         \/ (l = 0 /\ (MainStart \/ MainStartPool \/ AcceptorHandleRead(0)))

FairSpecRegistry ==
    /\ SpecRegistry
    /\ \A l \in {0, 1} : WF_vars(RegistryProgress(l))

(***************************************************************************)
(* SpecAccept: SpecRegistry in a process that may run out of file          *)
(* descriptors at any time and may free one at any time.  FairSpecAccept:  *)
(* the loops' threads keep running; nothing obliges the process to free a  *)
(* descriptor.                                                             *)
(***************************************************************************)
\* the process uses up its last file descriptor, and frees one
ExhaustDescriptors ==
    /\ ~emfile
    /\ emfile' = TRUE
    /\ UNCHANGED <<bufferFrameBase, bufVars, pollEnv, crashed, tieVars, extVars>>

FreeDescriptor ==
    /\ emfile
    /\ emfile' = FALSE
    /\ UNCHANGED <<bufferFrameBase, bufVars, pollEnv, crashed, tieVars, extVars>>

NextAccept ==
    \/ NextRegistry
    \/ AcceptorHandleReadEmfile(0)
    \/ ExhaustDescriptors
    \/ FreeDescriptor

SpecAccept == InitConn /\ [][NextAccept]_vars

AcceptProgress(l) ==
    IF loopPc[l] = "poll"
    THEN ForcedReady(l) # {} /\ Poll(l)
    ELSE RegistryOwnerNext(l)
         \/ (l = 0 /\ (MainStart \/ MainStartPool \/ AcceptorHandleRead(0)
                         \/ AcceptorHandleReadEmfile(0)))

FairSpecAccept ==
    /\ SpecAccept
    /\ \A l \in {0, 1} : WF_vars(AcceptProgress(l))

(***************************************************************************)
(* SpecPoller: the poller of the base loop under any sequence of           *)
(* Channel::update() and Channel::remove() calls on a few channels of that *)
(* loop (channels have distinct fds); the loop itself does not run.        *)
(***************************************************************************)
\* the channels the calls are made on
PollerChannels == {IoCh, AcceptCh, 1, 2}
\* the values of events_ that enableReading/Writing, disableReading/Writing and
\* disableAll produce
ChannelMasks == {kNoneEvent, kReadEvent, kWriteEvent, kReadEvent \cup kWriteEvent}

InitPoller ==
    /\ InitLoopVars
    /\ InitChanVars({})
    /\ InitThrVars
    /\ InitEltVars
    /\ InitSrvVars({0}, 0, 0)
    /\ InitConnVars(0)
    /\ InitNoSend
    /\ InitHist(0)

\* the record of a poller operation on channel ch by the base loop's thread
PollerRec(op, ch, p) ==
    [NoOp EXCEPT !.op = op, !.conn = ch, !.thread = threadId_(0),
                 !.evOld = events_[ch], !.evNew = p.ev[ch],
                 !.tag = p.idx[ch], !.inMap = ch \in p.chs[0]]

\* events_ = ev; update(), that is EventLoop::updateChannel and
\* EPollPoller::updateChannel
ChannelUpdate(ch, ev) ==
    LET p == UpdateChannel(PollerState, ch, 0, ev) IN
      /\ SetPoller(p)
      /\ lastOps' = <<PollerRec("updateChannel", ch, p)>>
      /\ UNCHANGED <<loopVars, revents_, thrVars, eltVars, srvVars, connVars, taskHist,
                     quitHist, srvHist, connCounts>>

\* Channel::remove(), that is EventLoop::removeChannel and
\* EPollPoller::removeChannel
ChannelRemove(ch) ==
    LET p == RemoveChannel(PollerState, ch, 0) IN
      /\ SetPoller(p)
      /\ lastOps' = <<PollerRec("removeChannel", ch, p)>>
      /\ UNCHANGED <<loopVars, revents_, thrVars, eltVars, srvVars, connVars, taskHist,
                     quitHist, srvHist, connCounts>>

NextPoller ==
    \/ \E ch \in PollerChannels : \E ev \in ChannelMasks : ChannelUpdate(ch, ev)
    \/ \E ch \in PollerChannels : ChannelRemove(ch)

SpecPoller == InitPoller /\ [][NextPoller]_vars

(***************************************************************************)
(* SpecBuffer: one Buffer under any sequence of calls of its public        *)
(* members that respects their asserted preconditions; no loop runs.       *)
(***************************************************************************)
InitBufferCalls ==
    /\ InitLoopVars
    /\ InitChanVars({})
    /\ InitThrVars
    /\ InitEltVars
    /\ InitSrvVars({0}, 0, 0)
    /\ InitConnVars(0)
    /\ writeCompleteCallback_ = FALSE
    /\ highWaterMarkCallback_ = FALSE
    /\ sendsLeft = 0
    /\ buffer_ = [i \in 1..(kCheapPrepend + InitialSize) |-> 0]
    /\ readerIndex_ = kCheapPrepend
    /\ writerIndex_ = kCheapPrepend
    /\ prependsLeft = MaxPrepends
    /\ fifo = <<>>
    /\ lastCall = [op |-> "none"]
    /\ InitHist(0)

NextBuffer ==
    \/ \E data \in Payloads(MaxLen) : CallAppend(data)
    \/ \E data \in Payloads(MaxLen) : CallPrepend(data)
    \/ \E len \in 0..MaxLen : CallRetrieve(len)
    \/ CallRetrieveAll
    \/ \E len \in 0..MaxLen : CallRetrieveAsString(len)
    \/ CallRetrieveAllAsString
    \/ \E len \in 0..(MaxLen + 1) : CallEnsureWritableBytes(len)

SpecBuffer == InitBufferCalls /\ [][NextBuffer]_vars

(***************************************************************************)
(* SpecFactory: the construction of the loops, each by its own thread, in  *)
(* a process started with any value of MUDUO_USE_POLL or without it; the   *)
(* base loop, once constructed, has a user channel updated and removed.    *)
(***************************************************************************)
\* the values of MUDUO_USE_POLL the behaviours start with
PollEnvValues == {NoEnv, "", "0", "1"}

InitFactory ==
    /\ InitLoopVars
    /\ events_ = [ch \in Channels |-> kNoneEvent]
    /\ revents_ = [ch \in Channels |-> {}]
    /\ index_ = [ch \in Channels |-> kNew]
    /\ channels_ = [l \in Loops |-> {}]
    /\ epollSet = [l \in Loops |-> {}]
    /\ InitThrVars
    /\ InitEltVars
    /\ started_ = 0
    /\ numThreads_ = 0
    /\ loops_ = <<>>
    /\ next_ = 0
    /\ nextConnId_ = 1
    /\ connections_ = {}
    /\ listening_ = FALSE
    /\ backlog = 0
    /\ clientsLeft = 0
    /\ startsLeft = 0
    /\ emfile = FALSE
    /\ pollEnv \in PollEnvValues
    /\ crashed = FALSE
    /\ InitNoTie
    /\ InitConnVars(0)
    /\ writeCompleteCallback_ = FALSE
    /\ highWaterMarkCallback_ = FALSE
    /\ sendsLeft = 0
    /\ InitBuffer
    /\ InitHist(0)

factoryFrame ==
    <<loopVars, revents_, thrVars, eltVars, srvVars, state_, connLoop, tied_, outLen,
      writeShut, published, sockBudget, sendsLeft, extVars, histVars>>

\* EventLoop::EventLoop on the thread of loop l: poller_(newDefaultPoller(this)),
\* then wakeupChannel_->enableReading(), whose update() calls
\* poller_->updateChannel.  Through a null poller_ that call is undefined: the
\* thread is killed by SIGSEGV, or the call has no effect.
ConstructLoop(l) ==
    /\ ~crashed
    /\ events_[WakeupCh(l)] = kNoneEvent
    /\ IF NewDefaultPoller(pollEnv) = "nullptr"
       THEN /\ events_' = [events_ EXCEPT ![WakeupCh(l)] = kReadEvent]
            /\ crashed' \in BOOLEAN
            /\ UNCHANGED <<index_, channels_, epollSet>>
       ELSE /\ SetPoller(ConstructLoops(PollerState, {l}))
            /\ UNCHANGED crashed
    /\ UNCHANGED <<factoryFrame, writeCompleteCallback_, highWaterMarkCallback_, bufVars,
                   emfile, pollEnv, tieVars>>

\* a call of Channel::update() or Channel::remove() on the base loop's user channel
FactoryChannelCall ==
    /\ ~crashed
    /\ WakeupCh(0) \in epollSet[0]
    /\ \/ \E ev \in ChannelMasks : ChannelUpdate(IoCh, ev)
       \/ ChannelRemove(IoCh)

NextFactory ==
    \/ \E l \in Loops : ConstructLoop(l)
    \/ FactoryChannelCall

SpecFactory == InitFactory /\ [][NextFactory]_vars

(***************************************************************************)
(* SpecTie: the base loop with its user channel tied to an object of the   *)
(* application, which lets go of its shared_ptr copies at any time, from   *)
(* any thread.  The channel stays registered.                              *)
(***************************************************************************)
InitTie ==
    /\ InitLoopVars
    /\ InitChanVars({IoCh})
    /\ InitThrVars
    /\ InitEltVars
    /\ started_ = 0
    /\ numThreads_ = 0
    /\ loops_ = <<>>
    /\ next_ = 0
    /\ nextConnId_ = 1
    /\ connections_ = {}
    /\ listening_ = FALSE
    /\ backlog = 0
    /\ clientsLeft = 0
    /\ startsLeft = 0
    /\ emfile = FALSE
    /\ pollEnv = NoEnv
    /\ crashed = FALSE
    /\ InitExt
    /\ ioTied = TRUE
    /\ ownerRefs = MaxOwnerRefs
    /\ ownerDestroyed = FALSE
    /\ InitConnVars(0)
    /\ writeCompleteCallback_ = FALSE
    /\ highWaterMarkCallback_ = FALSE
    /\ sendsLeft = 0
    /\ InitBuffer
    /\ InitHist(0)

\* the application resets one of its shared_ptr copies; the object is destroyed
\* with the last copy unless handleEvent holds its guard
ReleaseOwner ==
    /\ ownerRefs > 0
    /\ ownerRefs' = ownerRefs - 1
    /\ ownerDestroyed' = (ownerRefs = 1 /\ ~GuardHeld)
    /\ UNCHANGED <<bufferFrameBase, bufVars, procVars, ioTied, extVars>>

NextTie ==
    \/ OwnerNext(0)
    \/ PollTimeout(0)
    \/ ReleaseOwner

SpecTie == InitTie /\ [][NextTie]_vars

(***************************************************************************)
(* Claims about the task queue (Spec, FairSpec).                           *)
(***************************************************************************)
Range(seq) == {seq[i] : i \in 1..Len(seq)}
CountIn(seq, id) ==
    Cardinality({i \in 1..Len(seq) : seq[i].kind = "user" /\ seq[i].arg = id})
CountExecuted(id) == Cardinality({i \in 1..Len(executed) : executed[i][1] = id})
\* the invocations of tasks that went through queueInLoop on loop l, in order
ExecQueued(l) == SelectSeq(executed, LAMBDA e : e[1] \in Range(appended[l]))

\* C1: every task handed to queueInLoop (or runInLoop) of a loop is, at every
\* moment and for every interleaving of appends with the owner's swap, either
\* still waiting (once, in pendingFunctors_ or in the swapped batch) or has been
\* invoked exactly once; it is never lost and never invoked twice, and every
\* invocation is made by the loop's owner thread.
C1_ExactlyOnceOnOwner ==
    /\ \A id \in 1..MaxTasks :
         id < nextTask =>
           CountIn(pendingFunctors_[0], id) + CountIn(functors[0], id)
             + CountExecuted(id) = 1
    /\ \A i \in 1..Len(executed) : executed[i][2] = threadId_(0)

\* a task appended by a foreign thread while the owner was running a batch has
\* been invoked, after an earlier task of another batch
C1_Witness ==
    /\ Len(ExecQueued(0)) >= 2
    /\ \E i \in 1..Len(pendingFunctors_[0]) : pendingFunctors_[0][i].src = "foreign"
    /\ loopPc[0] = "run"

\* C2: the tasks queueInLoop appended to a loop are invoked in the order of
\* their appends: the sequence of invocations is a prefix of the sequence of
\* appends, across swap batches.
C2_FifoOrder ==
    /\ Len(ExecQueued(0)) <= Len(appended[0])
    /\ \A i \in 1..Len(ExecQueued(0)) : ExecQueued(0)[i][1] = appended[0][i]

\* the owner stands between two batches: tasks of earlier batches have been
\* invoked and later appends wait for the next swap
C2_Witness ==
    /\ loopPc[0] = "swap"
    /\ Len(ExecQueued(0)) >= 1
    /\ Len(pendingFunctors_[0]) >= 2

\* tasks appended by a non-owner thread, or by the owner from a pending task
Urgent(l) ==
    {i \in 1..Len(pendingFunctors_[l]) : pendingFunctors_[l][i].src \in {"foreign", "pending"}}

\* C3 as stated: whenever the owner blocks in poll while such a task waits in
\* the queue, a wakeup write is pending on the wakeup fd.
C3_WakeupPendingAtPoll ==
    \A l \in Loops :
      (loopPc[l] = "poll" /\ Urgent(l) # {}) => wakeupFd[l] > 0

\* C3 amended: ... a wakeup write is pending on the wakeup fd, or the thread
\* that appended the task is between its append and its wakeup() call.
C3_WakeupPendingOrImminent ==
    \A l \in Loops :
      (loopPc[l] = "poll" /\ Urgent(l) # {}) =>
         \/ wakeupFd[l] > 0
         \/ \E t \in Foreign : thrPc[t] = "qil_wake" /\ thrLoop[t] = l

\* the owner is about to poll with a task queued from within a pending task
C3_Witness ==
    /\ loopPc[0] = "poll"
    /\ \E i \in 1..Len(pendingFunctors_[0]) : pendingFunctors_[0][i].src = "pending"
    /\ wakeupFd[0] > 0

\* C4: when a foreign thread's quit() stores quit_ while the owner is inside
\* loop(), the owner's loop() call eventually returns.
C4_ForeignQuitReturns ==
    (quitPcs[0] # {}) ~> (loopPc[0] = "returned")

\* C4 for a quit() that stores quit_ after the owner has executed quit_ = false,
\* that is while the owner is inside the while loop: loop() eventually returns,
\* and no poll timeout has to expire for it (FairSpec).
C4_QuitInsideWhileReturns ==
    ("while" \in quitPcs[0]) ~> (loopPc[0] = "returned")

(***************************************************************************)
(* Claims about EventLoopThread (FairSpecThread).                          *)
(***************************************************************************)
\* C5: once the destructor of a loop-thread has started (after startLoop()
\* returned), it terminates: its quit() makes the thread's loop() return and
\* join() completes, whatever the interleaving with the spawned thread.
C5_DestructorTerminates ==
    (thrPc[EltOwner] = "dtor_quit") ~> (thrPc[EltOwner] = "dtor_done")

(***************************************************************************)
(* Claims about the pool and TcpServer::start() (SpecPool).                *)
(***************************************************************************)
\* C6: with N >= 1 subordinate loops the k-th accepted connection (k = 0, 1, ...;
\* its id is k + 1) is bound to loops[k mod N], with N = 0 every connection is
\* bound to the base loop, and next stays in 0..N-1 (0 when N = 0).
C6_RoundRobin ==
    /\ \A c \in Conns :
         c < nextConnId_ =>
           connLoop[c] = IF numThreads_ = 0 THEN 0
                         ELSE loops_[((c - 1) % numThreads_) + 1]
    /\ IF numThreads_ = 0 THEN next_ = 0 ELSE next_ \in 0..(numThreads_ - 1)

\* three subordinate loops have received five connections: the fourth went to
\* the first loop again and next has wrapped
C6_Witness ==
    /\ numThreads_ = 3
    /\ nextConnId_ = 6
    /\ connLoop[4] = loops_[1]
    /\ connLoop[5] = loops_[2]
    /\ next_ = 2

\* functors of one kind waiting in a queue
CountKind(seq, kind) == Cardinality({i \in 1..Len(seq) : seq[i].kind = kind})
StartInProgress == loopPc[0] = "start_pool" \/ \E t \in Foreign : thrPc[t] = "start_pool"

\* C7: however many times start() is called, from the base thread and from
\* foreign threads at once, the thread pool is started at most once and
\* Acceptor::listen is scheduled at most once; once a call has completed its
\* guarded block, exactly one pool start has happened and exactly one listen
\* has run or waits in the base loop's queue.
C7_StartOnce ==
    LET listens == listenCalls + CountKind(pendingFunctors_[0], "listen")
                     + CountKind(functors[0], "listen")
    IN /\ poolStarts <= 1
       /\ listens <= 1
       /\ (started_ >= 1 /\ ~StartInProgress) => (poolStarts = 1 /\ listens = 1)

\* every call of start() has been made; a foreign thread ran the guarded block
\* and is still inside start() (between the append of the listen functor and
\* its wakeup), the other calls returned meanwhile, and the listen has run
C7_Witness ==
    /\ started_ = MaxStarts
    /\ startsLeft = 0
    /\ poolStarts = 1
    /\ listenCalls = 1
    /\ \E t \in Foreign : thrPc[t] = "qil_wake" /\ thrLoop[t] = 0

(***************************************************************************)
(* Claims about the connection life cycle (SpecConn).                      *)
(***************************************************************************)
\* C8: on every connection connectEstablished and connectDestroyed each run at
\* most once, and connectDestroyed runs only after connectEstablished has run.
C8_EstablishedDestroyedOnce ==
    \A c \in Conns :
      /\ estRuns[c] <= 1
      /\ destroyedRuns[c] <= 1
      /\ destroyedRuns[c] >= 1 => estRuns[c] >= 1

\* C9: the connection callback is invoked on establishment and on teardown of
\* every connection that gets closed; the invocation made by connectEstablished
\* is the first one and sees connected() = true, every invocation made by
\* handleClose or connectDestroyed sees connected() = false.
C9_CallbackDistinguishes ==
    \A c \in Conns :
      /\ \A i \in 1..Len(cbLog[c]) :
           cbLog[c][i].connected = (cbLog[c][i].from = "established")
      /\ \A i \in 2..Len(cbLog[c]) : cbLog[c][i].from # "established"
      /\ estRuns[c] >= 1 => (Len(cbLog[c]) >= 1 /\ cbLog[c][1].from = "established")
      /\ closeRuns[c] >= 1 => (Len(cbLog[c]) >= 2 /\ cbLog[c][2].from = "close")

\* a connection of the subordinate loop was established, a foreign thread began
\* a shutdown() on it, and it has been closed
C9_Witness ==
    \E c \in Conns :
      /\ connLoop[c] = 1
      /\ Len(cbLog[c]) = 2
      /\ cbLog[c][1].connected
      /\ ~cbLog[c][2].connected
      /\ state_[c] = "kDisconnecting"

\* C10: handleClose is never executed a second time on the same connection,
\* whatever event mask the poller reports and whatever read() returns.
C10_CloseAtMostOnce == \A c \in Conns : closeRuns[c] <= 1

(***************************************************************************)
(* Claims about sending (SpecSend).                                        *)
(***************************************************************************)
\* C11: a send of length 0 on a connected connection is a no-op: it leaves the
\* output buffer's length and the channel's events unchanged and queues neither
\* the write-complete nor the high-water-mark callback.
C11_ZeroSendNoOp ==
    \A i \in 1..Len(lastOps) :
      LET r == lastOps[i] IN
        (r.op = "sendInLoop" /\ r.len = 0 /\ r.stOld = "kConnected")
          => (r.new = r.old /\ r.evNew = r.evOld /\ ~r.wc /\ r.hwm = <<>>)

\* C12: with a high-water-mark callback set, a send queues it exactly when the
\* output buffer's readable length is below the threshold before the send and
\* at or above it after, once and with the length after the append as argument;
\* a send made while the buffer is at or above the threshold queues none.
C12_HighWaterOnCrossing ==
    highWaterMarkCallback_ =>
      \A i \in 1..Len(lastOps) :
        LET r == lastOps[i] IN
          r.op = "sendInLoop" =>
            /\ (r.hwm # <<>>) <=> (r.old < HighWaterMark /\ HighWaterMark <= r.new)
            /\ r.hwm # <<>> => r.hwm = <<r.new>>

\* a send found the buffer non-empty and below the threshold, appended past the
\* threshold and queued the callback
C12_Witness ==
    \E i \in 1..Len(lastOps) :
      /\ lastOps[i].op = "sendInLoop"
      /\ lastOps[i].old > 0
      /\ lastOps[i].hwm = <<lastOps[i].new>>

\* C13: with a write-complete callback set, an operation queues it exactly when
\* it is a handleWrite that empties a non-empty output buffer or a send whose
\* direct write takes the whole payload; a partial or failed write queues none.
C13_WriteCompleteExactly ==
    writeCompleteCallback_ =>
      \A i \in 1..Len(lastOps) :
        LET r == lastOps[i] IN
          r.wc <=> \/ r.op = "handleWrite" /\ r.old > 0 /\ r.new = 0
                   \/ r.op = "sendInLoop" /\ r.direct /\ r.n = r.len

\* handleWrite emptied a buffer that held more than it had written before
C13_Witness ==
    \E i \in 1..Len(lastOps) :
      /\ lastOps[i].op = "handleWrite"
      /\ lastOps[i].old > 0
      /\ lastOps[i].new = 0
      /\ lastOps[i].wc

\* C18: the message callback and the close callback of a connection are not
\* invoked while a write-complete callback of that connection, whose write
\* completed earlier, is still waiting to be invoked.
C18_CallbacksInEventOrder ==
    \A i \in 1..Len(lastOps) :
      LET r == lastOps[i] IN
        (r.op \in {"handleRead", "handleClose"} /\ r.n >= 0) => r.wcWaiting = 0

(***************************************************************************)
(* Claims about shutdown, errors and the state machine (SpecHalfClose).    *)
(***************************************************************************)
\* handleWrite emptied the buffer of a connection in state kDisconnecting
DrainedWhileDisconnecting(r) ==
    /\ r.op = "handleWrite"
    /\ r.stOld = "kDisconnecting"
    /\ r.old > 0
    /\ r.new = 0

\* C14: the write half is never shut down while the output buffer holds unsent
\* bytes, and when handleWrite empties the buffer of a connection in state
\* kDisconnecting it shuts the write half down.
C14_ShutdownAfterDrain ==
    \A i \in 1..Len(lastOps) :
      LET r == lastOps[i] IN
        /\ r.shut => r.new = 0
        /\ DrainedWhileDisconnecting(r) => r.shut

\* C15: when handleWrite empties the buffer of a connection in state
\* kDisconnecting, the write half is shut down and state_ becomes kDisconnected.
C15_DrainDisconnects ==
    \A i \in 1..Len(lastOps) :
      LET r == lastOps[i] IN
        DrainedWhileDisconnecting(r) => (r.shut /\ r.stNew = "kDisconnected")

\* C16: when the read of handleRead fails on a connected or disconnecting
\* connection, the handler leaves state_ = kDisconnected and no event enabled,
\* and has invoked the close callback.
C16_ReadErrorCloses ==
    \A i \in 1..Len(lastOps) :
      LET r == lastOps[i] IN
        (r.op = "handleRead" /\ r.n < 0 /\ r.stOld \in {"kConnected", "kDisconnecting"})
          => (r.stNew = "kDisconnected" /\ r.evNew = kNoneEvent /\ r.closeCb)

\* C17: every operation that writes a connection's state_, buffers or channel
\* events runs on the thread of the connection's loop.
C17_OwnerThreadOnly ==
    \A i \in 1..Len(lastOps) :
      lastOps[i].op # "none" =>
        IsInLoopThread(connLoop[lastOps[i].conn], lastOps[i].thread)

C20_PollerMapMatchesTag ==
    /\ \A ch \in Channels :
         /\ (\E l \in Loops : ch \in channels_[l]) <=> index_[ch] \in {kAdded, kDeleted}
         /\ index_[ch] = kNew => \A l \in Loops : ch \notin epollSet[l]
    /\ \A i \in 1..Len(lastOps) :
         lastOps[i].op = "removeChannel" => (lastOps[i].tag = kNew /\ ~lastOps[i].inMap)

\* removeChannel has just run on a channel that had events enabled, while another
\* channel is deregistered (kDeleted, in the map, not in the interest list) and
\* a third is registered
C20_Witness ==
    /\ \E i \in 1..Len(lastOps) :
         lastOps[i].op = "removeChannel" /\ lastOps[i].evOld # kNoneEvent
    /\ \E ch \in PollerChannels :
         index_[ch] = kDeleted /\ ch \in channels_[0] /\ ch \notin epollSet[0]
    /\ \E ch \in PollerChannels : index_[ch] = kAdded /\ ch \in epollSet[0]

(***************************************************************************)
(* Claims about Buffer (SpecBuffer).                                       *)
(***************************************************************************)
\* C22 as stated: in every state kCheapPrepend <= readerIndex_ <= writerIndex_
\* <= buffer_.size(), and after retrieveAll() both indices are kCheapPrepend.
C22_ReserveBelowReader ==
    /\ 0 <= kCheapPrepend
    /\ kCheapPrepend <= readerIndex_
    /\ readerIndex_ <= writerIndex_
    /\ writerIndex_ <= Len(buffer_)
    /\ lastCall.op = "retrieveAll" =>
         (readerIndex_ = kCheapPrepend /\ writerIndex_ = kCheapPrepend)

\* C22: in every state 0 <= readerIndex_ <= writerIndex_ <= buffer_.size();
\* readerIndex_ is at least kCheapPrepend as long as prepend() has not been
\* called; after retrieveAll() both indices are kCheapPrepend.
C22_IndicesOrdered ==
    /\ 0 <= readerIndex_
    /\ readerIndex_ <= writerIndex_
    /\ writerIndex_ <= Len(buffer_)
    /\ prependsLeft = MaxPrepends => kCheapPrepend <= readerIndex_
    /\ lastCall.op = "retrieveAll" =>
         (readerIndex_ = kCheapPrepend /\ writerIndex_ = kCheapPrepend)

\* retrieveAll() has just run on a buffer that has grown and into whose reserve
\* bytes were prepended
C22_Witness ==
    /\ lastCall.op = "retrieveAll"
    /\ Len(buffer_) > kCheapPrepend + InitialSize
    /\ \E i \in 1..kCheapPrepend : buffer_[i] # 0

\* C23: the readable chars are the bytes appended (and prepended) so far without
\* those already retrieved, in order, and retrieveAsString(len) and
\* retrieveAllAsString() return the first len, respectively all, of them.
C23_FifoOfBytes ==
    /\ Peek(BufferState, ReadableBytes(BufferState)) = fifo
    /\ lastCall.op \in {"retrieveAsString", "retrieveAllAsString"} =>
         lastCall.ret = lastCall.before

\* retrieveAllAsString() has returned the bytes of more than one append from a
\* buffer that has grown
C23_Witness ==
    /\ lastCall.op = "retrieveAllAsString"
    /\ Len(lastCall.ret) > MaxLen
    /\ Len(buffer_) > kCheapPrepend + InitialSize

\* C24: after ensureWritableBytes(len), also inside append, writableBytes() is at
\* least len and the readable chars are those before the call, whether
\* makeSpace was called and whichever of its branches it took.
C24_MakeSpaceSuffices ==
    lastCall.op \in {"append", "ensureWritableBytes"} =>
      (lastCall.writable >= lastCall.len /\ lastCall.after = lastCall.before)

\* makeSpace has just moved a non-empty readable region down to kCheapPrepend
C24_Witness ==
    /\ lastCall.op \in {"append", "ensureWritableBytes"}
    /\ lastCall.madeSpace
    /\ ~lastCall.grew
    /\ lastCall.before # <<>>

\* makeSpace has just resized a buffer with a non-empty readable region
C24_WitnessGrowth ==
    /\ lastCall.op \in {"append", "ensureWritableBytes"}
    /\ lastCall.grew
    /\ lastCall.before # <<>>

(***************************************************************************)
(* Claims about the server's registry (FairSpecRegistry).                  *)
(***************************************************************************)
\* connection c has been inserted into connections_ by newConnection
Registered(c) == c < nextConnId_

\* C21: a connection that newConnection has inserted is erased from
\* connections_ only after its handleClose has run, the erase is made by the
\* base loop's thread, and once handleClose has run on a connection the
\* connection is eventually out of connections_.
C21_RegistryHoldsUntilClosed ==
    /\ [](\A c \in Conns : (Registered(c) /\ c \notin connections_) => closeRuns[c] > 0)
    /\ [](\A i \in 1..Len(lastOps) : lastOps[i].erase => lastOps[i].thread = threadId_(0))
    /\ \A c \in Conns : (closeRuns[c] > 0) ~> (c \notin connections_)

\* a connection of the subordinate loop has been closed there and erased by
\* the base loop's removeConnectionInLoop
C21_Witness ==
    \E i \in 1..Len(lastOps) :
      /\ lastOps[i].op = "removeConnectionInLoop"
      /\ connLoop[lastOps[i].conn] # 0
      /\ closeRuns[lastOps[i].conn] > 0
      /\ lastOps[i].conn \notin connections_

(***************************************************************************)
(* Claims about the acceptor (FairSpecAccept).                             *)
(***************************************************************************)
\* epoll_wait of the base loop has nothing to report: the thread blocks
BaseLoopBlocks == loopPc[0] = "poll" /\ ForcedReady(0) = {}

\* C25: the base loop does not go on for ever with a connection waiting in the
\* listen queue and no descriptor to accept it with: again and again a
\* descriptor is free, or the queue is empty, or the loop blocks in epoll_wait.
C25_AcceptorDoesNotSpin == []<>(~emfile \/ backlog = 0 \/ BaseLoopBlocks)

(***************************************************************************)
(* Claims about the poller factory (SpecFactory).                          *)
(***************************************************************************)
\* C26: the factory returns the poll variant when MUDUO_USE_POLL is set to any
\* value and the epoll variant otherwise, never a null pointer, and every loop
\* whose constructor has run has its wakeup channel registered with its poller.
C26_FactoryYieldsPoller ==
    /\ ~crashed
    /\ \A l \in Loops :
         events_[WakeupCh(l)] # kNoneEvent =>
           /\ NewDefaultPoller(pollEnv) =
                (IF pollEnv = NoEnv THEN "EPollPoller" ELSE "PollPoller")
           /\ WakeupCh(l) \in channels_[l]
           /\ WakeupCh(l) \in epollSet[l]

(***************************************************************************)
(* Claims about the tie of a channel (SpecTie).                            *)
(***************************************************************************)
\* C28: while a handler of the tied user channel is being run the object the
\* channel is tied to exists: a dispatch that finds it destroyed invokes no
\* handler, and it is not destroyed during a dispatch that found it alive.
C28_TiedOwnerOutlivesDispatch ==
    (ioTied /\ InHandlerOf(0, IoCh)) => ~ownerDestroyed

\* the poller reported the user channel after the object was destroyed, and
\* the dispatch has gone past the channel
C28_Witness ==
    /\ ioTied
    /\ ownerDestroyed
    /\ loopPc[0] = "dispatch"
    /\ activeIdx[0] > 1
    /\ activeChannels_[0][activeIdx[0] - 1] = IoCh

\* the application let go of its last copy while a handler of the channel runs
C28_WitnessGuard ==
    /\ ioTied
    /\ InHandlerOf(0, IoCh)
    /\ ownerRefs = 0

(***************************************************************************)
(* Claims about Channel::handleEventWithGuard (SpecHalfClose).             *)
(***************************************************************************)
\* the handlers the claim has a dispatch of channel ch invoke, as numbers in
\* the order close (1), error (2), read (3), write (4)
ClaimedHandlers(ch) ==
    LET r == revents_[ch] IN
      {k \in 1..4 :
         /\ HasCallback(ch, k)
         /\ \/ k = 1 /\ "HUP" \in r /\ "IN" \notin r
            \/ k = 2 /\ "ERR" \in r
            \/ k = 3 /\ ("IN" \in r \/ "PRI" \in r)
            \/ k = 4 /\ "OUT" \in r}

\* the first of them after handler i; 5 when there is none
NextClaimed(ch, i) ==
    LET S == {k \in ClaimedHandlers(ch) : k > i} IN
      IF S = {} THEN 5 ELSE CHOOSE k \in S : \A m \in S : k <= m

\* the number of the handler a loop is about to run; 0 before the first
HandlerNo(pc) == IF pc = "dispatch" THEN 0 ELSE CHOOSE k \in 1..4 : Phases[k] = pc

\* C27: a dispatch of a channel invokes, in the order close, error, read,
\* write, exactly the handlers that are installed and whose bits are reported:
\* close on HUP without IN, error on ERR, read on IN or PRI, write on OUT; then
\* the loop goes on to the next active channel.
C27_DispatchOrder ==
    [][\A l \in Loops :
         (/\ loopPc[l] \in {"dispatch", "h_close", "h_error", "h_read", "h_write"}
          /\ activeIdx[l] <= Len(activeChannels_[l])
          /\ <<loopPc'[l], activeIdx'[l]>> # <<loopPc[l], activeIdx[l]>>)
         => LET n == NextClaimed(CurChannel(l), HandlerNo(loopPc[l])) IN
              IF n <= 4
              THEN loopPc'[l] = Phases[n] /\ activeIdx'[l] = activeIdx[l]
              ELSE loopPc'[l] = "dispatch" /\ activeIdx'[l] = activeIdx[l] + 1]_vars

\* the write handler of a connection is about to run in a dispatch in which
\* HUP was reported together with IN, ERR and OUT: close was passed over, error
\* and read have run
C27_Witness ==
    /\ loopPc[0] = "h_write"
    /\ {"HUP", "IN", "ERR", "OUT"} \subseteq revents_[CurChannel(0)]
    /\ CurChannel(0) \in Conns

(***************************************************************************)
(* Claims about quit() during an iteration (FairSpecQuit).                 *)
(***************************************************************************)
\* how far through one pass of the while loop a pc is
IterRank(pc) ==
    CASE pc \in {"dispatch", "h_close", "h_error", "h_read", "h_write"} -> 1
      [] pc = "pend_begin" -> 2
      [] pc = "swap" -> 3
      [] pc = "run" -> 4
      [] pc = "test" -> 5
      [] pc = "returned" -> 6
      [] OTHER -> 0

\* C29: a quit() that stores quit_ while the owner is in the range-for over
\* the active channels or in doPendingFunctors() does not cut the iteration
\* short: from then on the owner goes through the rest of the iteration in
\* order (no active channel is skipped, doPendingFunctors() is entered and
\* left once and runs the whole batch), polls no more, and then loop() returns.
C29_QuitFinishesIteration ==
    /\ [][\A l \in Loops :
            ("dispatching" \in quitPcs[l] /\ loopPc'[l] # loopPc[l]) =>
               /\ IterRank(loopPc[l]) >= 1
               /\ IterRank(loopPc'[l]) \in {IterRank(loopPc[l]), IterRank(loopPc[l]) + 1}
               /\ loopPc'[l] = "pend_begin" => activeIdx[l] > Len(activeChannels_[l])
               /\ loopPc'[l] = "test" => functors[l] = <<>>
               /\ activeChannels_'[l] = activeChannels_[l]
               /\ activeIdx'[l] \in {activeIdx[l], activeIdx[l] + 1}]_vars
    /\ [](\A l \in Loops : "dispatching" \in quitPcs[l] => loopPc[l] # "poll")
    /\ \A l \in {0} : ("dispatching" \in quitPcs[l]) ~> (loopPc[l] = "returned")

\* loop() has returned after a quit() stored while the owner was past the
\* poll of an iteration that had an active channel, and a queued task has run
C29_Witness ==
    /\ "dispatching" \in quitPcs[0]
    /\ loopPc[0] = "returned"
    /\ Len(executed) >= 1
    /\ activeChannels_[0] # <<>>

(***************************************************************************)
(* Claims about EventLoop::mutex_ (SpecMutex).                             *)
(***************************************************************************)
\* C30: mutex_ is held only inside the two blocks that lock it: by the owner
\* between the lock and the swap of doPendingFunctors(), by a producer between
\* the lock and the emplace_back of queueInLoop().  The owner therefore never
\* holds it while a handler or a task of the batch runs, so a queueInLoop or
\* runInLoop made by that task finds mutex_ free or held by a producer that is
\* about to release it.
C30_MutexOnlyForSwapAndAppend ==
    \A l \in Loops :
      /\ mutex_[l] = threadId_(l) => loopPc[l] = "swap"
      /\ \A t \in Foreign :
           mutex_[l] = ForeignTid(t) => thrPc[t] = "qil_locked" /\ thrLoop[t] = l
      /\ mutex_[l] \in {NoThread, threadId_(l)} \cup {ForeignTid(t) : t \in Foreign}
      /\ (loopPc[l] \in {"h_close", "h_error", "h_read", "h_write", "run"})
           => mutex_[l] # threadId_(l)

\* the owner is in the for loop over the batch, a task of the batch has
\* appended a task to the same loop, and a producer holds mutex_ for its append
C30_Witness ==
    /\ loopPc[0] = "run"
    /\ \E i \in 1..Len(pendingFunctors_[0]) : pendingFunctors_[0][i].src = "pending"
    /\ \E t \in Foreign : mutex_[0] = ForeignTid(t)

\* a task of the batch is about to run while a producer holds mutex_
C30_WitnessTaskPending ==
    /\ loopPc[0] = "run"
    /\ functors[0] # <<>>
    /\ \E t \in Foreign : mutex_[0] = ForeignTid(t)

(***************************************************************************)
(* Claims about connectDestroyed (SpecRegistry).                           *)
(***************************************************************************)
\* C31: connectDestroyed of a connection, and with it the removal of the
\* connection's channel from the poller of its loop, is never made by a step
\* of a channel handler: it is made by the connectDestroyed functor that the
\* loop takes from its batch in doPendingFunctors(), after the dispatch that
\* ran the close path has ended, with and without subordinate loops.
C31_DestroyedNotNested ==
    [][\A c \in Conns :
         (\/ destroyedRuns'[c] # destroyedRuns[c]
          \/ \E l \in Loops : c \in channels_[l] /\ c \notin channels_'[l])
         => LET l == connLoop[c] IN
              /\ closeRuns[c] > 0
              /\ loopPc[l] = "run"
              /\ functors[l] # <<>>
              /\ Head(functors[l]) \in {Task("connectDestroyed", c, "handler"),
                                        Task("connectDestroyed", c, "pending")}
              /\ functors'[l] = Tail(functors[l])]_vars

\* a connection of the base loop of a server without subordinate loops has
\* gone through the close path and connectDestroyed has removed its channel
C31_Witness ==
    \E c \in Conns :
      /\ Registered(c)
      /\ numThreads_ = 0
      /\ connLoop[c] = 0
      /\ closeRuns[c] > 0
      /\ destroyedRuns[c] > 0
      /\ c \notin channels_[0]

\* the same with the connection on a subordinate loop
C31_WitnessSubLoop ==
    \E c \in Conns :
      /\ Registered(c)
      /\ connLoop[c] = 1
      /\ closeRuns[c] > 0
      /\ destroyedRuns[c] > 0
      /\ c \notin channels_[1]

(***************************************************************************)
(* Claims about the thread-init callback (SpecInit).                       *)
(***************************************************************************)
InitCallsOf(l) == {i \in 1..Len(initCalls) : initCalls[i].loop = l}

\* C32: every pointer startLoop() has returned is the loop its thread
\* constructed, never null; a thread-init callback that is set has been invoked
\* exactly once with each subordinate loop whose thread is past that point of
\* threadFunc, on that loop's own thread, before the pointer was published and
\* before loop() was entered, and with no other subordinate loop; with no
\* subordinate loop it is invoked once with the base loop when start() returns,
\* and never with the base loop otherwise; a callback that is not set is never
\* invoked.
C32_ThreadInitOncePerLoop ==
    /\ \A i \in 1..Len(loops_) : loops_[i] = i /\ poolTf[i] = "loop"
    /\ \A l \in Loops \ {0} :
         /\ Cardinality(InitCallsOf(l)) =
              (IF threadInitCallback_ /\ poolTf[l] \in {"publish", "loop"} THEN 1 ELSE 0)
         /\ poolLoop_[l] # NullLoop => poolTf[l] = "loop"
         /\ loopPc[l] \notin {"none", "init"} => poolTf[l] = "loop"
    /\ \A i \in 1..Len(initCalls) :
         /\ initCalls[i].thread = threadId_(initCalls[i].loop)
         /\ ~initCalls[i].published
         /\ initCalls[i].pc = "init"
    /\ Cardinality(InitCallsOf(0)) =
         (IF threadInitCallback_ /\ numThreads_ = 0 /\ poolPc = "done" THEN 1 ELSE 0)

\* start(cb) has returned on a server with two or more subordinate loops, all
\* of them polling, and cb has been invoked
C32_Witness ==
    /\ poolPc = "done"
    /\ numThreads_ >= 2
    /\ Len(initCalls) = numThreads_
    /\ \A l \in 1..numThreads_ : loopPc[l] = "poll"

\* start(cb) has returned on a server without subordinate loops
C32_WitnessBaseLoop ==
    /\ poolPc = "done"
    /\ numThreads_ = 0
    /\ Len(initCalls) = 1
    /\ loopPc[0] = "poll"

(***************************************************************************)
(* Claims about state_ under concurrent shutdown() (SpecConn).             *)
(***************************************************************************)
\* C33: kDisconnected is absorbing: no step, of the connection's loop or of a
\* thread inside shutdown(), takes state_ of a connection from kDisconnected to
\* another value.
C33_DisconnectedAbsorbing ==
    [][\A c \in Conns :
         state_[c] = "kDisconnected" => state_'[c] = "kDisconnected"]_vars

(***************************************************************************)
(* Claims about send() against shutdown() (SpecSendShut).                  *)
(***************************************************************************)
\* C34: a sendInLoop that runs on a connection whose write half has been shut
\* down calls no ::write and leaves the output buffer as it was.
C34_NoSendAfterHalfClose ==
    \A i \in 1..Len(lastOps) :
      (lastOps[i].op = "sendInLoop" /\ writeShut[lastOps[i].conn]) =>
         /\ ~lastOps[i].direct
         /\ lastOps[i].new = lastOps[i].old

(***************************************************************************)
(* Claims about the write interest (SpecHalfClose).                        *)
(***************************************************************************)
\* C35: between the steps of its loop, a connection that is connected or
\* disconnecting has EPOLLOUT in its channel's events_ if and only if its output
\* buffer holds bytes.
C35_WriteInterestIffBuffered ==
    \A c \in Conns :
      state_[c] \in {"kConnected", "kDisconnecting"} =>
         (IsWriting(events_[c]) <=> outLen[c] > 0)

(***************************************************************************)
(* Claims about empty interest masks (SpecPoller).                         *)
(***************************************************************************)
\* C36: a channel whose tag is kAdded, that is one registered with the epoll
\* descriptor, has a non-empty events_.
C36_RegisteredHasInterest ==
    \A ch \in Channels : index_[ch] = kAdded => events_[ch] # kNoneEvent

(***************************************************************************)
(* Claims about callbacks after the teardown callback (SpecSend)           *)
(***************************************************************************)
\* the user connection callback has been invoked for connection c with
\* connected() false
TornDown(c) == \E i \in 1..Len(cbLog[c]) : ~cbLog[c][i].connected

\* C37: once the user connection callback has been invoked for a connection with
\* connected() false, no write-complete or high-water-mark callback is invoked
\* for that connection any more, also not one that was queued through
\* queueInLoop before the close path ran, and no message callback either
C37_NoCallbackAfterTeardown ==
    [][\A i \in 1..Len(lastOps') :
         LET r == lastOps'[i] IN
           (/\ lastOps' # lastOps
            /\ TornDown(r.conn)
            /\ \/ r.op \in {"writeComplete", "highWaterMark"}
               \/ r.op = "handleRead" /\ r.n > 0)
           => FALSE]_vars

(***************************************************************************)
(* Claims about the lifetime of a connection (SpecHalfClose)               *)
(***************************************************************************)
\* the functors that hold a TcpConnectionPtr: std::bind(&TcpConnection::
\* connectEstablished, conn), std::bind(&TcpServer::removeConnectionInLoop, this,
\* conn), std::bind(&TcpConnection::connectDestroyed, conn) and the callbacks
\* bound to shared_from_this().  send() captures [this, buf] and shutdown() binds
\* this: their functors hold the bare pointer.
OwningKinds ==
    {"connectEstablished", "removeConnectionInLoop", "connectDestroyed",
     "writeComplete", "highWaterMark"}

ConnTaskKinds == OwningKinds \cup {"sendInLoop", "shutdownInLoop"}

\* a functor in seq holds a TcpConnectionPtr to connection c
QueueOwns(seq, c) ==
    \E i \in 1..Len(seq) : seq[i].kind \in OwningKinds /\ seq[i].arg = c

\* some shared_ptr to connection c exists, the application keeping none beyond
\* the calls it is in: the entry of connections_, a queued functor, the guard of
\* the channel's dispatch, or a foreign thread inside send() or shutdown()
ConnAlive(c) ==
    \/ c \in connections_
    \/ \E l \in Loops : QueueOwns(pendingFunctors_[l], c) \/ QueueOwns(functors[l], c)
    \/ tied_[c] /\ InHandlerOf(connLoop[c], c)
    \/ \E t \in Foreign : thrPc[t] # "idle" /\ thrConn[t] = c

\* loop l runs the functor at the head of its batch, which was queued for a
\* connection
RunsConnTask(l) ==
    /\ loopPc[l] = "run"
    /\ functors[l] # <<>>
    /\ Head(functors[l]).kind \in ConnTaskKinds
    /\ functors'[l] = Tail(functors[l])

\* C38: every functor queued on a connection's loop for that connection
\* (sendInLoop of a send() from another thread, shutdownInLoop,
\* connectEstablished, connectDestroyed) runs while a shared_ptr to the
\* connection exists, even if the caller gives up its pointer as soon as send()
\* or shutdown() has returned
C38_TaskRunsOnLiveConnection ==
    [][\A l \in Loops : RunsConnTask(l) => ConnAlive(Head(functors[l]).arg)]_vars

(***************************************************************************)
(* SpecWire: the output path of one established connection, byte by byte.  *)
(* Its outputBuffer_ is the Buffer of buffer_, readerIndex_ and            *)
(* writerIndex_.  A worker thread calls send(), the application sends from *)
(* its message callback, another thread calls shutdown(); the peer drains  *)
(* the socket, closes or resets.  The loop's thread runs the handlers and  *)
(* the queued functors one at a time, the functors in the order they were  *)
(* queued.  FairSpecWire adds what the liveness of the output path relies  *)
(* on: the peer keeps draining the socket, and epoll_wait reports a        *)
(* writable socket whose channel is writing.                               *)
(***************************************************************************)
MaxWireSends == 2
MaxSpace == 2

\* a std::min of two lengths
MinLen(a, b) == IF a < b THEN a ELSE b

\* s is a prefix of t
IsPrefix(s, t) == Len(s) <= Len(t) /\ s = SubSeq(t, 1, Len(s))

\* the socket takes no more bytes: its write half was shut down or the peer reset
SockDown == wireShut \/ sockPeer = "rst"

\* what ::write(fd, data, len) returns on the connection's socket
SockWrites(len) ==
    IF SockDown
    THEN {[n |-> -1, err |-> IF wireShut THEN "EPIPE" ELSE "ECONNRESET"]}
    ELSE {[n |-> k, err |-> "none"] :
            k \in IF len = 0 THEN {0} ELSE 1..MinLen(len, sockSpace)}
         \cup {[n |-> -1, err |-> "EINTR"]}
         \cup (IF sockSpace = 0 /\ len > 0 THEN {[n |-> -1, err |-> "EWOULDBLOCK"]} ELSE {})

\* sendInLoop's argument of append: static_cast<const char *>(data) + nwrote,
\* remaining
Remainder_Whole(data, nwrote) == data
Remainder(data, nwrote) == SubSeq(data, nwrote + 1, Len(data))

\* sendInLoop tries ::write at once
WireSendsDirectly ==
    /\ wireState # "kDisconnected"
    /\ ~IsWriting(wireEvents)
    /\ ReadableBytes(BufferState) = 0

\* the results of the ::write sendInLoop(data, len) makes, if it makes one
WireSendWrites(data) ==
    IF WireSendsDirectly THEN SockWrites(Len(data)) ELSE {[n |-> 0, err |-> "none"]}

\* TcpConnection::sendInLoop(data, len) when its ::write, if it makes one,
\* returns w: outputBuffer_ and events_ afterwards, and the bytes the socket took
SendInLoopBytes(data, w) ==
    LET b == BufferState
        direct == WireSendsDirectly
        nwrote == IF direct /\ w.n >= 0 THEN w.n ELSE 0
        remaining == Len(data) - nwrote
        faultError == direct /\ w.n < 0 /\ w.err \in FaultErrnos
        append == wireState # "kDisconnected" /\ ~faultError /\ remaining > 0
    IN [buf |-> IF append THEN BufferAppend(b, Remainder(data, nwrote)) ELSE b,
        ev |-> IF append THEN wireEvents \cup kWriteEvent ELSE wireEvents,
        wrote |-> SubSeq(data, 1, nwrote)]

SetOutputBuffer(b) ==
    /\ buffer_' = b.buf
    /\ readerIndex_' = b.r
    /\ writerIndex_' = b.w

\* what no step of the output path changes
wireFrame ==
    <<bufferFrameBase, procVars, tieVars, lockVars, poolVars, userCbVars, prependsLeft, fifo,
      lastCall>>

\* the effects of sendInLoop(data, len)
ApplySendBytes(data) ==
    \E w \in WireSendWrites(data) :
      LET o == SendInLoopBytes(data, w) IN
        /\ SetOutputBuffer(o.buf)
        /\ wireEvents' = o.ev
        /\ written' = written \o o.wrote
        /\ sockSpace' = sockSpace - Len(o.wrote)
        /\ payloads' = payloads \o data

\* send(buf) on the worker thread: if (state_ == kConnected)
WireSend(t, data) ==
    /\ wirePc[t] = "idle"
    /\ wireSendsLeft > 0
    /\ wireState = "kConnected"
    /\ wirePc' = [wirePc EXCEPT ![t] = "send_run"]
    /\ wireData' = data
    /\ wireSendsLeft' = wireSendsLeft - 1
    /\ UNCHANGED <<wireState, wireEvents, wireShut, wireQueue, sockPeer, sockSpace,
                   written, payloads>>
    /\ UNCHANGED <<buffer_, readerIndex_, writerIndex_, wireFrame>>

\* send(): loop_->runInLoop([this, buf]() { this->sendInLoop(buf); })
WireSendRun(t) ==
    /\ wirePc[t] = "send_run"
    /\ wireQueue' = Append(wireQueue, [kind |-> "sendInLoop", data |-> wireData])
    /\ wirePc' = [wirePc EXCEPT ![t] = "idle"]
    /\ wireData' = <<>>
    /\ UNCHANGED <<wireState, wireEvents, wireShut, wireSendsLeft, sockPeer, sockSpace,
                   written, payloads>>
    /\ UNCHANGED <<buffer_, readerIndex_, writerIndex_, wireFrame>>

\* handleRead reads data and the message callback calls send(buf) on the loop's
\* thread: if (state_ == kConnected) sendInLoop(buf.c_str(), buf.size())
WireSendInCallback(data) ==
    /\ wireEvents \cap kReadEvent # {}
    /\ sockPeer = "open"
    /\ wireSendsLeft > 0
    /\ wireState = "kConnected"
    /\ ApplySendBytes(data)
    /\ wireSendsLeft' = wireSendsLeft - 1
    /\ UNCHANGED <<wireState, wireShut, wireQueue, wirePc, wireData, sockPeer>>
    /\ UNCHANGED wireFrame

\* the queued functor [this, buf]() { this->sendInLoop(buf); }
WireRunSendInLoop ==
    /\ wireQueue # <<>>
    /\ Head(wireQueue).kind = "sendInLoop"
    /\ wireQueue' = Tail(wireQueue)
    /\ ApplySendBytes(Head(wireQueue).data)
    /\ UNCHANGED <<wireState, wireShut, wirePc, wireData, wireSendsLeft, sockPeer>>
    /\ UNCHANGED wireFrame

\* shutdown() on another thread: if (state_ == kConnected)
WireShutdown(t) ==
    /\ wirePc[t] = "idle"
    /\ wireState = "kConnected"
    /\ wirePc' = [wirePc EXCEPT ![t] = "sd_set"]
    /\ UNCHANGED <<wireState, wireEvents, wireShut, wireQueue, wireData, wireSendsLeft,
                   sockPeer, sockSpace, written, payloads>>
    /\ UNCHANGED <<buffer_, readerIndex_, writerIndex_, wireFrame>>

\* shutdown(): setState(kDisconnecting)
WireShutdownSet(t) ==
    /\ wirePc[t] = "sd_set"
    /\ wireState' = "kDisconnecting"
    /\ wirePc' = [wirePc EXCEPT ![t] = "sd_run"]
    /\ UNCHANGED <<wireEvents, wireShut, wireQueue, wireData, wireSendsLeft, sockPeer,
                   sockSpace, written, payloads>>
    /\ UNCHANGED <<buffer_, readerIndex_, writerIndex_, wireFrame>>

\* shutdown(): loop_->runInLoop(std::bind(&TcpConnection::shutdownInLoop, this))
WireShutdownRun(t) ==
    /\ wirePc[t] = "sd_run"
    /\ wireQueue' = Append(wireQueue, [kind |-> "shutdownInLoop", data |-> <<>>])
    /\ wirePc' = [wirePc EXCEPT ![t] = "returned"]
    /\ UNCHANGED <<wireState, wireEvents, wireShut, wireData, wireSendsLeft, sockPeer,
                   sockSpace, written, payloads>>
    /\ UNCHANGED <<buffer_, readerIndex_, writerIndex_, wireFrame>>

\* the queued functor shutdownInLoop: if (!channel_->isWriting())
\* socket_->shutdownWrite()
WireRunShutdownInLoop ==
    /\ wireQueue # <<>>
    /\ Head(wireQueue).kind = "shutdownInLoop"
    /\ wireQueue' = Tail(wireQueue)
    /\ wireShut' = (wireShut \/ ~IsWriting(wireEvents))
    /\ UNCHANGED <<wireState, wireEvents, wirePc, wireData, wireSendsLeft, sockPeer,
                   sockSpace, written, payloads>>
    /\ UNCHANGED <<buffer_, readerIndex_, writerIndex_, wireFrame>>

\* epoll_wait reports the connection's socket writable, or in error, while its
\* channel is writing
WireWritable == IsWriting(wireEvents) /\ (sockSpace > 0 \/ SockDown)

\* TcpConnection::handleWrite
WireHandleWrite ==
    /\ WireWritable
    /\ LET b == BufferState IN
       \E w \in SockWrites(ReadableBytes(b)) :
         LET nb == IF w.n > 0 THEN Retrieve(b, w.n) ELSE b
             emptied == w.n > 0 /\ ReadableBytes(nb) = 0
             ev == IF emptied THEN wireEvents \ kWriteEvent ELSE wireEvents
         IN /\ SetOutputBuffer(nb)
            /\ wireEvents' = ev
            /\ wireShut' = (wireShut \/ (emptied /\ wireState = "kDisconnecting"))
            /\ written' = IF w.n > 0 THEN written \o Peek(b, w.n) ELSE written
            /\ sockSpace' = IF w.n > 0 THEN sockSpace - w.n ELSE sockSpace
    /\ UNCHANGED <<wireState, wireQueue, wirePc, wireData, wireSendsLeft, sockPeer,
                   payloads>>
    /\ UNCHANGED wireFrame

\* the peer has closed or reset and the channel is registered: handleRead reads 0,
\* or EPOLLHUP is dispatched, and handleClose runs: setState(kDisconnected);
\* channel_->disableAll()
WireHandleClose ==
    /\ wireEvents # kNoneEvent
    /\ sockPeer # "open"
    /\ wireState' = "kDisconnected"
    /\ wireEvents' = kNoneEvent
    /\ UNCHANGED <<wireShut, wireQueue, wirePc, wireData, wireSendsLeft, sockPeer,
                   sockSpace, written, payloads>>
    /\ UNCHANGED <<buffer_, readerIndex_, writerIndex_, wireFrame>>

\* the peer reads what it was sent
PeerDrains ==
    /\ sockPeer # "rst"
    /\ sockSpace < MaxSpace
    /\ sockSpace' = MaxSpace
    /\ UNCHANGED <<wireState, wireEvents, wireShut, wireQueue, wirePc, wireData,
                   wireSendsLeft, sockPeer, written, payloads>>
    /\ UNCHANGED <<buffer_, readerIndex_, writerIndex_, wireFrame>>

\* the peer shuts its write half down (FIN), or resets the connection (RST)
PeerCloses(how) ==
    /\ sockPeer = "open"
    /\ sockPeer' = how
    /\ UNCHANGED <<wireState, wireEvents, wireShut, wireQueue, wirePc, wireData,
                   wireSendsLeft, sockSpace, written, payloads>>
    /\ UNCHANGED <<buffer_, readerIndex_, writerIndex_, wireFrame>>

InitWireConn ==
    /\ InitLoopVars
    /\ InitChanVars({})
    /\ InitThrVars
    /\ InitEltVars
    /\ started_ = 0
    /\ numThreads_ = 0
    /\ loops_ = <<>>
    /\ next_ = 0
    /\ nextConnId_ = 1
    /\ connections_ = {}
    /\ listening_ = FALSE
    /\ backlog = 0
    /\ clientsLeft = 0
    /\ startsLeft = 0
    /\ emfile = FALSE
    /\ pollEnv = NoEnv
    /\ crashed = FALSE
    /\ InitNoLock
    /\ ioTied = FALSE
    /\ ownerRefs = 0
    /\ ownerDestroyed = FALSE
    /\ InitConnVars(0)
    /\ InitNoSend
    /\ InitHist(0)
    /\ InitUserCallbacks
    /\ wireState = "kConnected"
    /\ wireEvents = kReadEvent
    /\ wireShut = FALSE
    /\ wireQueue = <<>>
    /\ wirePc = [t \in Foreign |-> "idle"]
    /\ wireData = <<>>
    /\ wireSendsLeft = MaxWireSends
    /\ sockPeer = "open"
    /\ sockSpace = MaxSpace
    /\ written = <<>>
    /\ payloads = <<>>

NextWire ==
    \/ \E data \in Payloads(MaxLen) : WireSend(Sender, data)
    \/ WireSendRun(Sender)
    \/ \E data \in Payloads(MaxLen) : WireSendInCallback(data)
    \/ WireRunSendInLoop
    \/ WireShutdown(Closer)
    \/ WireShutdownSet(Closer)
    \/ WireShutdownRun(Closer)
    \/ WireRunShutdownInLoop
    \/ WireHandleWrite
    \/ WireHandleClose
    \/ PeerDrains
    \/ \E how \in {"fin", "rst"} : PeerCloses(how)

SpecWire == InitWireConn /\ [][NextWire]_vars

FairSpecWire ==
    /\ SpecWire
    /\ WF_vars(PeerDrains)
    /\ WF_vars(WireHandleWrite /\ written' # written)

(***************************************************************************)
(* Claims about the bytes on the wire (FairSpecWire)                       *)
(***************************************************************************)
\* C39: the bytes written to the socket are always a prefix of the concatenation
\* of the payloads in the order their sendInLoop calls ran (no byte duplicated,
\* reordered or skipped, whether written at once, in parts or from the buffer),
\* and while the connection stays connected and the socket keeps becoming
\* writable the buffered bytes are eventually written
C39_WireIsPrefixOfPayloads ==
    /\ [](IsPrefix(written, payloads))
    /\ [](ReadableBytes(BufferState) > 0
            => <>(\/ ReadableBytes(BufferState) = 0
                  \/ wireState # "kConnected"
                  \/ SockDown))

(***************************************************************************)
(* SpecUserCallbacks: SpecRegistry's server, whose application has called  *)
(* setConnectionCallback or not and setMessageCallback or not before       *)
(* start().  operator() of an empty std::function throws                   *)
(* std::bad_function_call; nothing catches it on a loop's thread, so       *)
(* std::terminate ends the process.                                        *)
(***************************************************************************)
InitUserCallbacksAny ==
    /\ InitLoopVars
    /\ InitChanVars({})
    /\ InitThrVars
    /\ InitEltVars
    /\ InitSrvBase({0, 1}, MaxClients, 1)
    /\ InitNoLock
    /\ InitNoWire
    /\ connectionCallback_ \in BOOLEAN
    /\ messageCallback_ \in BOOLEAN
    /\ ioTied = FALSE
    /\ ownerRefs = 0
    /\ ownerDestroyed = FALSE
    /\ InitConnVars(MaxReports)
    /\ InitNoSend
    /\ InitHist(0)

\* connectEstablished, handleClose or connectDestroyed has invoked
\* connectionCallback_
ConnectionCallbackInvoked == \E c \in Conns : cbLog[c] # <<>>

\* the latest handleRead read data and invoked messageCallback_
MessageCallbackInvoked ==
    \E i \in 1..Len(lastOps) : lastOps[i].op = "handleRead" /\ lastOps[i].n > 0

\* an empty callback object has been invoked: std::bad_function_call
BadFunctionCall ==
    \/ ~connectionCallback_ /\ ConnectionCallbackInvoked
    \/ ~messageCallback_ /\ MessageCallbackInvoked

NextUserCallbacks ==
    \/ ~BadFunctionCall /\ ServerNext
    \/ \E l \in Loops : ~BadFunctionCall /\ RegistryOwnerNext(l)

SpecUserCallbacks == InitUserCallbacksAny /\ [][NextUserCallbacks]_vars

(***************************************************************************)
(* Claims about callbacks that are not set (SpecUserCallbacks)             *)
(***************************************************************************)
\* C40: a user callback is invoked only if it is set: on a server without
\* connection callback or without message callback, establishing a connection,
\* reading data and the close path invoke no empty callback object
C40_CallbackInvokedOnlyIfSet ==
    /\ ConnectionCallbackInvoked => connectionCallback_
    /\ MessageCallbackInvoked => messageCallback_
====
